---- MODULE Spec2Model ----
(***************************************************************************)
(* A model of the validation pipeline of embedded-rust-tutorial:           *)
(* the error recovery manager and the degradation manager                  *)
(* (src/src/error_recovery.rs), the code extractor's classification        *)
(* (src/src/code_extractor.rs), the dependency resolver                    *)
(* (src/src/dependency_resolver.rs), the example tester                    *)
(* (src/src/example_tester.rs) and the command line run loop with its      *)
(* result cache (src/src/bin/rust_example_tester.rs).                      *)
(*                                                                         *)
(* Rust strings are TLA+ strings; the string operations of the code        *)
(* (contains, starts_with, trim, lines, split, join) are computed on the   *)
(* characters.  The backtick character cannot be written in a TLA+ string  *)
(* and is written as an apostrophe, in patterns and in texts alike.        *)
(* Option<T> is a set with at most one element: None is {} and Some(v) is  *)
(* {v}.  Vec<T> is a sequence.  A HashMap is a function on its key set.    *)
(***************************************************************************)
EXTENDS Integers, Sequences, FiniteSets, TLC

VARIABLES
    \* ErrorRecoveryManager
    recovery_cache,     \* recovery_cache: error key -> RecoveryAction
    rec_call,           \* the last determine_recovery_action call and its result
    loop,               \* the caller's retry loop around one failing example
    \* GracefulDegradationManager
    degraded_mode,          \* degraded_mode: bool
    current_failure_rate,   \* current_failure_rate, as the fraction <<num, den>>
    deg_call,               \* the last update_failure_rate call and the mode before it
    deg_query,              \* the last should_degrade_example call and its result
    \* CodeExtractor
    classified,             \* the last block classified by infer_context
    parsed,                 \* the last parse_annotations call and its result
    extracted,              \* the last extract_from_content call and its result
    \* DependencyResolver
    resolved,               \* the last resolve_dependencies call and its result
    manifest,               \* the last two generate_cargo_toml calls and their texts
    \* ToolchainManager
    target_lookup,          \* the last get_available_targets call and its result
    \* RustExampleTester
    tester,                 \* the tester: its config, toolchain manager and temp_dir
    disk,                   \* the paths (directories and files) under the work directory
    t_pc,                   \* where the tester is: idle, next (item), waiting (for cargo)
    t_call,                 \* the running call: pending items, results and counts
    child,                  \* the cargo check subprocess
    t_ret,                  \* what the last finished call returned
    \* the command line tool
    input_file,             \* the markdown file: its time and the text of its examples
    cache_json,             \* the entries of cache.json in the cache directory
    cli,                    \* the run in progress: the locals of run_with_config
    cli_ret,                \* how the last run ended, and its report
    unchanged,              \* the keys of the examples of the last complete run with
                            \* the cache that have not changed since
    run_count,              \* the runs so far
    \* ValidationReport
    validation_report,      \* a ValidationReport and the calls made on it
    \* the tool on a directory, and its watch mode
    directory,              \* the files, cache.json, the last run and the runs so far
    watch                   \* run_watch_mode: where it is and its file_timestamps

recoveryVars == <<recovery_cache, rec_call, loop>>

degradationVars == <<degraded_mode, current_failure_rate, deg_call, deg_query>>

extractorVars == <<classified>>

parserVars == <<parsed, extracted>>

toolchainVars == <<target_lookup>>

resolverVars == <<resolved, manifest>>

testerVars == <<tester, disk, t_pc, t_call, child, t_ret>>

cliVars == <<input_file, cache_json, cli, cli_ret, unchanged, run_count>>

reportVars == <<validation_report>>

directoryVars == <<directory, watch>>

\* an operation of one component leaves the other components as they are
OnlyRecovery == UNCHANGED <<degradationVars, extractorVars, resolverVars, testerVars,
    cliVars, parserVars, toolchainVars, reportVars,
    directoryVars>>
OnlyDegradation == UNCHANGED <<recoveryVars, extractorVars, resolverVars, testerVars,
    cliVars, parserVars, toolchainVars, reportVars,
    directoryVars>>
OnlyExtractor == UNCHANGED <<recoveryVars, degradationVars, resolverVars, testerVars,
    cliVars, parserVars, toolchainVars, reportVars,
    directoryVars>>
OnlyResolver == UNCHANGED <<recoveryVars, degradationVars, extractorVars, testerVars,
    cliVars, parserVars, toolchainVars, reportVars,
    directoryVars>>
OnlyCli == UNCHANGED <<recoveryVars, degradationVars, extractorVars, resolverVars,
    testerVars, parserVars, toolchainVars, reportVars,
    directoryVars>>
OnlyParser == UNCHANGED <<recoveryVars, degradationVars, extractorVars, resolverVars,
    testerVars, cliVars, toolchainVars, reportVars,
    directoryVars>>
OnlyToolchain == UNCHANGED <<recoveryVars, degradationVars, extractorVars, resolverVars,
    testerVars, cliVars, parserVars, reportVars,
    directoryVars>>
OnlyTester == UNCHANGED <<recoveryVars, degradationVars, extractorVars, resolverVars,
    cliVars, parserVars, toolchainVars, reportVars,
    directoryVars>>
OnlyReport == UNCHANGED <<recoveryVars, degradationVars, extractorVars, resolverVars,
    testerVars, cliVars, parserVars, toolchainVars,
    directoryVars>>
OnlyDirectory == UNCHANGED <<recoveryVars, degradationVars, extractorVars,
    resolverVars, testerVars, cliVars, parserVars, toolchainVars, reportVars>>

vars == <<recovery_cache, rec_call, loop,
          degraded_mode, current_failure_rate, deg_call, deg_query,
          classified, parsed, extracted, resolved, manifest, target_lookup,
          tester, disk, t_pc, t_call, child, t_ret,
          input_file, cache_json, cli, cli_ret, unchanged, run_count,
          validation_report, directory, watch>>

-----------------------------------------------------------------------------
(* Bounds of the model *)

\* largest number of distinct error keys the recovery cache holds
MaxKeys == 1
\* largest retry_count a caller passes
MaxRetryCount == 4
\* largest successful / total count passed to update_failure_rate
MaxCount == 10
\* longest list of examples given to validate_examples
MaxExamples == 2
\* seconds between two looks at the clock, and the longest wait for a compiler
TickSecs == 15
MaxElapsed == 45
\* number of bits of a content hash
HashBits == 16
\* largest modification time of the input file, and most runs of the tool
MaxMtime == 2
MaxRuns == 2
\* longest list of examples given to generate_cargo_toml
MaxManifestExamples == 2

\* most annotations on one fence line
MaxAnnotations == 2
\* most parts (prose and blocks) of a document
MaxSegments == 3

\* largest number of calls made on one ValidationReport
MaxReportCalls == 5

-----------------------------------------------------------------------------
(* Strings *)

None == {}
Some(v) == {v}
Unwrap(o) == CHOOSE v \in o : TRUE

Min(a, b) == IF a <= b THEN a ELSE b

\* str::contains(pat)
Contains(s, p) ==
    \E i \in 1..(Len(s) - Len(p) + 1) : SubSeq(s, i, i + Len(p) - 1) = p

\* str::starts_with(pat)
StartsWith(s, p) == Len(p) <= Len(s) /\ SubSeq(s, 1, Len(p)) = p

CharAt(s, i) == SubSeq(s, i, i)

IsWhitespace(c) == c \in {" ", "\n", "\t", "\r"}

RECURSIVE TrimStart(_)
TrimStart(s) ==
    IF Len(s) > 0 /\ IsWhitespace(CharAt(s, 1))
    THEN TrimStart(SubSeq(s, 2, Len(s)))
    ELSE s

RECURSIVE TrimEnd(_)
TrimEnd(s) ==
    IF Len(s) > 0 /\ IsWhitespace(CharAt(s, Len(s)))
    THEN TrimEnd(SubSeq(s, 1, Len(s) - 1))
    ELSE s

\* str::trim()
Trim(s) == TrimEnd(TrimStart(s))

\* [String]::join(sep)
RECURSIVE Join(_, _)
Join(seq, sep) ==
    IF Len(seq) = 0 THEN ""
    ELSE IF Len(seq) = 1 THEN seq[1]
    ELSE seq[1] \o sep \o Join(Tail(seq), sep)

\* s.chars().take(n).collect::<String>()
TakeChars(s, n) == SubSeq(s, 1, Min(n, Len(s)))

\* Vec::contains
InSeq(seq, x) == \E i \in 1..Len(seq) : seq[i] = x

\* Display of a non-negative integer
RECURSIVE NatToStr(_)
NatToStr(n) ==
    IF n < 10 THEN SubSeq("0123456789", n + 1, n + 1)
    ELSE NatToStr(n \div 10) \o SubSeq("0123456789", (n % 10) + 1, (n % 10) + 1)

\* Display of an integer
IntToStr(n) == IF n < 0 THEN "-" \o NatToStr(0 - n) ELSE NatToStr(n)

\* Debug of Option<usize>
DebugOptNat(o) == IF o = None THEN "None" ELSE "Some(" \o NatToStr(Unwrap(o)) \o ")"

\* Debug of a Duration of whole seconds
DebugDuration(secs) == NatToStr(secs) \o "s"

\* the position of the k-th of the positions `at`, 0 before the first of them and
\* `end` after the last
NthPosition(at, k, end) ==
    IF k = 0 THEN 0
    ELSE IF k > Cardinality(at) THEN end
    ELSE CHOOSE i \in at : Cardinality({j \in at : j < i}) = k - 1

\* str::split(sep) for a one-character separator: the pieces between the
\* separators
Split(s, sep) ==
    LET at == {i \in 1..Len(s) : CharAt(s, i) = sep} IN
    [k \in 1..(Cardinality(at) + 1) |->
        SubSeq(s, NthPosition(at, k - 1, Len(s) + 1) + 1,
               NthPosition(at, k, Len(s) + 1) - 1)]

\* a line of str::lines() loses one trailing carriage return
StripCr(l) ==
    IF Len(l) > 0 /\ CharAt(l, Len(l)) = "\r" THEN SubSeq(l, 1, Len(l) - 1) ELSE l

\* str::lines(): split at line feeds, no empty last line after a final line feed
Lines(s) ==
    LET pieces == Split(s, "\n")
        kept == IF pieces[Len(pieces)] = "" THEN SubSeq(pieces, 1, Len(pieces) - 1)
                ELSE pieces
    IN  [i \in 1..Len(kept) |-> StripCr(kept[i])]

\* the characters of the model in byte order
Alphabet ==
    "\t\n\r !\"#$%&'()*+,-./0123456789:;<=>?@ABCDEFGHIJKLMNOPQRSTUVWXYZ[\\]^_abcdefghijklmnopqrstuvwxyz{|}~"

Rank(c) == CHOOSE i \in 1..Len(Alphabet) : CharAt(Alphabet, i) = c

\* a < b for strings (Ord for str: byte-wise lexicographic)
RECURSIVE StrLess(_, _)
StrLess(a, b) ==
    IF Len(b) = 0 THEN FALSE
    ELSE IF Len(a) = 0 THEN TRUE
    ELSE IF CharAt(a, 1) = CharAt(b, 1)
         THEN StrLess(SubSeq(a, 2, Len(a)), SubSeq(b, 2, Len(b)))
    ELSE Rank(CharAt(a, 1)) < Rank(CharAt(b, 1))

\* insertion of x into a sorted Vec<String>, after the elements equal to it
RECURSIVE InsertSorted(_, _)
InsertSorted(seq, x) ==
    IF Len(seq) = 0 THEN <<x>>
    ELSE IF StrLess(x, seq[1]) THEN <<x>> \o seq
    ELSE <<seq[1]>> \o InsertSorted(Tail(seq), x)

\* Vec<String>::sort()
RECURSIVE SortStrings(_)
SortStrings(seq) ==
    IF Len(seq) = 0 THEN <<>>
    ELSE InsertSorted(SortStrings(SubSeq(seq, 1, Len(seq) - 1)), seq[Len(seq)])

\* Vec::dedup(): consecutive equal elements collapse to one
RECURSIVE Dedup(_)
Dedup(seq) ==
    IF Len(seq) <= 1 THEN seq
    ELSE IF seq[1] = seq[2] THEN Dedup(Tail(seq))
    ELSE <<seq[1]>> \o Dedup(Tail(seq))

\* the function f as a table of its values, each computed once
Tabulated(f) == f @@ <<>>

\* patterns.iter().any(|p| code.contains(p))
ContainsAny(s, patterns) == \E i \in 1..Len(patterns) : Contains(s, patterns[i])

-----------------------------------------------------------------------------
(* TestConfig, src/src/test_config.rs *)

DefaultTimeoutSecs == 30

\* TestConfig::default()
TestConfigDefault ==
    [targets |-> <<"x86_64-unknown-linux-gnu">>,
     features |-> <<>>,
     no_std |-> FALSE,
     embedded_mode |-> FALSE,
     compilation_timeout |-> DefaultTimeoutSecs,
     work_dir |-> "/tmp/rust_example_tests"]

\* TestConfig::embedded()
TestConfigEmbedded ==
    [TestConfigDefault EXCEPT
        !.targets = <<"thumbv7em-none-eabihf", "thumbv6m-none-eabi">>,
        !.features = <<"embedded">>,
        !.no_std = TRUE,
        !.embedded_mode = TRUE]

\* TestConfig::crypto()
TestConfigCrypto ==
    [TestConfigDefault EXCEPT !.features = <<"crypto", "zeroize">>]

-----------------------------------------------------------------------------
(* ExampleContext and CodeExample, src/src/code_extractor.rs *)

CtxStd(features) == [kind |-> "Std", features |-> features]
CtxNoStd(target, features) ==
    [kind |-> "NoStd", target |-> target, features |-> features]
CtxHardware(platform, features) ==
    [kind |-> "Hardware", platform |-> platform, features |-> features]
CtxCrypto(algorithm, features) ==
    [kind |-> "Crypto", algorithm |-> algorithm, features |-> features]
CtxSnippet(reason) == [kind |-> "Snippet", reason |-> reason]

\* a context type whose every variant compiles
always_compiles(context) == TRUE

\* ExampleContext::should_compile
should_compile(context) == context.kind # "Snippet"

\* ExampleContext::is_no_std
is_no_std(context) == context.kind \in {"NoStd", "Hardware", "Crypto"}

Example(id, source_file, code, context) ==
    [id |-> id, source_file |-> source_file, code |-> code, context |-> context]

-----------------------------------------------------------------------------
(* CompilationError, src/src/test_config.rs *)

SyntaxError(message, line, column) ==
    [kind |-> "SyntaxError", message |-> message, line |-> line, column |-> column]
DependencyError(missing) == [kind |-> "DependencyError", missing |-> missing]
FeatureError(unsupported) == [kind |-> "FeatureError", unsupported |-> unsupported]
TargetError(incompatible_target, reason) ==
    [kind |-> "TargetError", incompatible_target |-> incompatible_target,
     reason |-> reason]
TimeoutError(duration) == [kind |-> "TimeoutError", duration |-> duration]
CompilationFailed(exit_code, message) ==
    [kind |-> "CompilationFailed", exit_code |-> exit_code, message |-> message]
IoError(message) == [kind |-> "IoError", message |-> message]

-----------------------------------------------------------------------------
(* ErrorRecoveryManager, src/src/error_recovery.rs *)

Retry(config, reason) == [kind |-> "Retry", config |-> config, reason |-> reason]
Skip(reason) == [kind |-> "Skip", reason |-> reason]
Fallback(target, disable_features) ==
    [kind |-> "Fallback", target |-> target, disable_features |-> disable_features]
MarkAsSnippet(reason) == [kind |-> "MarkAsSnippet", reason |-> reason]
Abort(message) == [kind |-> "Abort", message |-> message]

\* ErrorRecoveryManager::default()
max_retries == 3
fallback_targets ==
    <<"x86_64-unknown-linux-gnu", "thumbv7em-none-eabihf", "thumbv6m-none-eabi">>
optional_features == <<"hardware", "crypto-hardware", "advanced">>

is_likely_snippet(code) ==
    LET trimmed == Trim(code) IN
    IF \/ StartsWith(trimmed, "let ")
       \/ StartsWith(trimmed, "const ")
       \/ StartsWith(trimmed, "//")
       \/ StartsWith(trimmed, "use ")
       \/ StartsWith(trimmed, "impl ")
       \/ StartsWith(trimmed, "struct ")
       \/ StartsWith(trimmed, "enum ")
    THEN TRUE
    ELSE IF /\ ~Contains(trimmed, "fn main")
            /\ ~Contains(trimmed, "mod ")
            /\ ~Contains(trimmed, "#[no_mangle]")
            /\ ~Contains(trimmed, "#[entry]")
    THEN TRUE
    ELSE FALSE

handle_syntax_error(message, line, column, example, retry_count) ==
    IF is_likely_snippet(example.code)
    THEN MarkAsSnippet("Syntax error suggests incomplete code snippet: " \o message)
    ELSE IF \/ Contains(message, "expected item")
            \/ Contains(message, "unexpected end of file")
            \/ Contains(message, "expected 'fn', 'mod', 'struct'")
    THEN MarkAsSnippet("Code appears to be a fragment rather than complete example")
    ELSE IF retry_count >= max_retries
    THEN Skip("Syntax error persists after " \o NatToStr(retry_count)
              \o " retries: " \o message)
    ELSE Skip("Syntax error at line " \o DebugOptNat(line) \o ", column "
              \o DebugOptNat(column) \o ": " \o message)

\* the features loop of handle_dependency_error, over the missing names in order
RECURSIVE add_dependency_features(_, _)
add_dependency_features(features, missing) ==
    IF Len(missing) = 0 THEN features
    ELSE
        LET dep == Head(missing)
            f1 == IF /\ \/ Contains(dep, "embedded")
                        \/ Contains(dep, "cortex")
                        \/ Contains(dep, "hal")
                     /\ ~InSeq(features, "embedded")
                  THEN Append(features, "embedded") ELSE features
            f2 == IF /\ \/ Contains(dep, "crypto")
                        \/ Contains(dep, "aes")
                        \/ Contains(dep, "sha")
                     /\ ~InSeq(f1, "crypto")
                  THEN Append(f1, "crypto") ELSE f1
        IN add_dependency_features(f2, Tail(missing))

handle_dependency_error(missing, example, config, retry_count) ==
    IF retry_count >= max_retries
    THEN Skip("Missing dependencies after " \o NatToStr(retry_count)
              \o " retries: " \o Join(missing, ", "))
    ELSE Retry([config EXCEPT !.features = add_dependency_features(@, missing)],
               "Adding features to resolve missing dependencies: "
               \o Join(missing, ", "))

handle_feature_error(unsupported, example, config, retry_count) ==
    LET can_disable == SelectSeq(unsupported, LAMBDA f : InSeq(optional_features, f))
    IN  IF Len(can_disable) > 0 /\ retry_count < max_retries
        THEN Retry([config EXCEPT
                       !.features = SelectSeq(@, LAMBDA f : ~InSeq(can_disable, f))],
                   "Disabling optional features: " \o Join(can_disable, ", "))
        ELSE Skip("Unsupported features required: " \o Join(unsupported, ", "))

get_target_incompatible_features(target) ==
    IF target = "x86_64-unknown-linux-gnu" THEN <<"embedded", "hardware">>
    ELSE IF target \in {"thumbv7em-none-eabihf", "thumbv6m-none-eabi"} THEN <<"std">>
    ELSE <<>>

handle_target_error(incompatible_target, reason, example, config, retry_count) ==
    LET usable == SelectSeq(fallback_targets,
                            LAMBDA t : /\ t # incompatible_target
                                       /\ ~InSeq(config.targets, t)
                                       /\ retry_count < max_retries)
    IN  IF Len(usable) > 0
        THEN Fallback(Head(usable), get_target_incompatible_features(Head(usable)))
        ELSE Skip("No compatible target found. Original error: " \o reason)

handle_timeout_error(duration, example, retry_count) ==
    IF retry_count < max_retries
    THEN LET new_timeout == duration * 2 IN
         Retry([TestConfigDefault EXCEPT !.compilation_timeout = new_timeout],
               "Increasing timeout from " \o DebugDuration(duration) \o " to "
               \o DebugDuration(new_timeout))
    ELSE Skip("Compilation timeout after " \o DebugDuration(duration) \o " (tried "
              \o NatToStr(retry_count) \o " times)")

handle_compilation_failure(exit_code, message, example, retry_count) ==
    IF \/ Contains(message, "cannot find function 'main'")
       \/ Contains(message, "binary target")
    THEN MarkAsSnippet("Code appears to be a library snippet without main function")
    ELSE IF /\ Contains(message, "linker") \/ Contains(message, "undefined reference")
            /\ retry_count < max_retries
    THEN Fallback("x86_64-unknown-linux-gnu", <<"embedded">>)
    ELSE Skip("Compilation failed (exit code " \o IntToStr(exit_code) \o "): "
              \o message)

\* a manager that gave up on a persistent I/O error by aborting the whole run
handle_io_error_aborting(message, example, retry_count) ==
    IF retry_count < max_retries
    THEN Retry(TestConfigDefault, "Retrying after I/O error: " \o message)
    ELSE Abort("Persistent I/O error: " \o message)

handle_io_error(message, example, retry_count) ==
    IF retry_count < max_retries
    THEN Retry(TestConfigDefault, "Retrying after I/O error: " \o message)
    ELSE Skip("Persistent I/O error: " \o message)

\* The cache key is the triple (variant prefix, key text, context): the format
\* strings "syntax:{}:{:?}" .. "io:{:?}" of the code put exactly these into the key.
error_cache_key(error, context) ==
    IF error.kind = "SyntaxError"
    THEN <<"syntax", TakeChars(error.message, 50), context>>
    ELSE IF error.kind = "DependencyError"
    THEN <<"deps", Join(error.missing, ","), context>>
    ELSE IF error.kind = "FeatureError"
    THEN <<"features", Join(error.unsupported, ","), context>>
    ELSE IF error.kind = "TargetError"
    THEN <<"target", error.incompatible_target, context>>
    ELSE IF error.kind = "TimeoutError"
    THEN <<"timeout", "", context>>
    ELSE IF error.kind = "CompilationFailed"
    THEN <<"failed", IntToStr(error.exit_code), context>>
    ELSE <<"io", "", context>>

\* the match of determine_recovery_action on the error variant
handle_error(error, example, config, retry_count) ==
    IF error.kind = "SyntaxError"
    THEN handle_syntax_error(error.message, error.line, error.column, example,
                             retry_count)
    ELSE IF error.kind = "DependencyError"
    THEN handle_dependency_error(error.missing, example, config, retry_count)
    ELSE IF error.kind = "FeatureError"
    THEN handle_feature_error(error.unsupported, example, config, retry_count)
    ELSE IF error.kind = "TargetError"
    THEN handle_target_error(error.incompatible_target, error.reason, example,
                             config, retry_count)
    ELSE IF error.kind = "TimeoutError"
    THEN handle_timeout_error(error.duration, example, retry_count)
    ELSE IF error.kind = "CompilationFailed"
    THEN handle_compilation_failure(error.exit_code, error.message, example,
                                    retry_count)
    ELSE handle_io_error(error.message, example, retry_count)

\* determine_recovery_action: the action returned and the cache after the call
\* determine_recovery_action without the lookup in recovery_cache: the action is
\* decided anew and inserted
decide_and_insert(cache, error, example, config, retry_count) ==
    LET error_key == error_cache_key(error, example.context)
        action == handle_error(error, example, config, retry_count)
    IN  [action |-> action,
         cache |-> [key \in DOMAIN cache \cup {error_key} |->
                       IF key = error_key THEN action ELSE cache[key]],
         hit |-> FALSE]

determine_recovery_action(cache, error, example, config, retry_count) ==
    LET error_key == error_cache_key(error, example.context) IN
    IF error_key \in DOMAIN cache
    THEN [action |-> cache[error_key], cache |-> cache, hit |-> TRUE]
    ELSE LET action == handle_error(error, example, config, retry_count) IN
         [action |-> action, cache |-> (error_key :> action) @@ cache, hit |-> FALSE]

-----------------------------------------------------------------------------
(* The caller's retry loop around determine_recovery_action.  A compilation  *)
(* of one example fails; the caller asks the manager with retry_count = the  *)
(* number of Retry actions it has received for this failure so far, retries  *)
(* with the returned configuration on Retry, and the retried compilation     *)
(* fails with the same error again.                                          *)

RecErrors ==
    {SyntaxError("unexpected end of file", Some(1), Some(8)),
     SyntaxError("error[E0308]: mismatched types", Some(3), None),
     DependencyError(<<"embedded-hal">>),
     FeatureError(<<"hardware">>),
     TargetError("thumbv7em-none-eabihf", "target not installed"),
     TimeoutError(DefaultTimeoutSecs),
     CompilationFailed(101, "error: linker 'cc' not found"),
     IoError("Failed to spawn process")}

RecExamples ==
    {Example("doc_1", "doc.md", "fn main() { println!(\"hi\"); }", CtxStd(<<>>)),
     Example("doc_2", "doc.md", "let x = ",
             CtxNoStd("thumbv7em-none-eabihf", <<>>))}

RecConfigs == {TestConfigDefault, TestConfigEmbedded}

NoCall == [valid |-> FALSE]

\* one call of determine_recovery_action on the manager
Call(error, example, config, retry_count) ==
    LET r == determine_recovery_action(recovery_cache, error, example, config,
                                       retry_count)
    IN  /\ Cardinality(DOMAIN r.cache) <= MaxKeys
        /\ recovery_cache' = r.cache
        /\ rec_call' = [valid |-> TRUE, error |-> error, example |-> example,
                        config |-> config, retry_count |-> retry_count,
                        action |-> r.action, hit |-> r.hit]

NoLoop == [active |-> FALSE, received |-> 0]

\* the configuration the caller compiles with next
NextConfig(action, config) == IF action.kind = "Retry" THEN action.config ELSE config

\* a compilation fails for the first time: retry_count = 0
RetryLoopStart(error, example, config) ==
    /\ OnlyRecovery
    /\ Call(error, example, config, 0)
    /\ loop' = [active |-> rec_call'.action.kind = "Retry",
                error |-> error, example |-> example,
                config |-> NextConfig(rec_call'.action, config),
                received |-> IF rec_call'.action.kind = "Retry" THEN 1 ELSE 0]

\* the retried compilation fails with the same error
RetryLoopNext ==
    /\ OnlyRecovery
    /\ loop.active
    /\ loop.received <= MaxRetryCount
    /\ Call(loop.error, loop.example, loop.config, loop.received)
    /\ loop' = [loop EXCEPT
                   !.active = rec_call'.action.kind = "Retry",
                   !.config = NextConfig(rec_call'.action, @),
                   !.received = IF rec_call'.action.kind = "Retry" THEN @ + 1 ELSE @]

\* the errors, examples and configurations of single calls on the manager
CallErrors ==
    RecErrors \cup
    {SyntaxError("expected item, found keyword 'let'", Some(2), Some(1)),
     FeatureError(<<"hardware", "simd">>),
     FeatureError(<<"simd">>),
     FeatureError(<<"advanced", "crypto-hardware">>)}

CallExamples ==
    RecExamples \cup
    {Example("doc_3", "doc.md",
             "struct Foo { a: u32 }\nimpl Foo { fn get(&self) -> u32 { self.a } }",
             CtxStd(<<>>)),
     Example("doc_4", "doc.md", "fn helper() -> u32 { 1 }",
             CtxNoStd("thumbv7em-none-eabihf", <<>>))}

CallConfigs ==
    RecConfigs \cup
    {[TestConfigDefault EXCEPT !.features = <<"hardware", "std", "advanced">>]}

\* a call of determine_recovery_action by any caller, with any retry_count
DetermineRecoveryAction(error, example, config, retry_count) ==
    /\ OnlyRecovery
    /\ Call(error, example, config, retry_count)
    /\ loop' = loop

-----------------------------------------------------------------------------
(* GracefulDegradationManager.  The failure rate 1.0 - successful / total is *)
(* kept as the exact fraction <<total - successful, total>> and compared     *)
(* with the threshold by cross multiplication; for the counts of the model   *)
(* (far below 2^52) the f64 comparisons of the code give the same answers:   *)
(* 0.5 and 0.25 are exact in f64 and no other quotient rounds onto them.     *)

\* failure_threshold: 0.5, as the fraction failure_threshold_num / failure_threshold_den
failure_threshold_num == 1
failure_threshold_den == 2

\* 1.0 - (successful as f64 / total as f64)
FailureRate(successful, total) == <<total - successful, total>>

\* rate > self.failure_threshold
AboveThreshold(rate) ==
    rate[1] * failure_threshold_den > failure_threshold_num * rate[2]

\* a manager without hysteresis would leave degraded mode below the threshold itself
BelowThreshold(rate) ==
    rate[1] * failure_threshold_den < failure_threshold_num * rate[2]

\* rate < self.failure_threshold * 0.5
BelowHalfThreshold(rate) ==
    rate[1] * failure_threshold_den * 2 < failure_threshold_num * rate[2]

\* the manager after update_failure_rate(successful, total)
update_failure_rate(mode, rate, successful, total) ==
    IF total > 0
    THEN LET r == FailureRate(successful, total) IN
         [current_failure_rate |-> r,
          degraded_mode |->
             IF AboveThreshold(r) /\ ~mode THEN TRUE
             ELSE IF BelowHalfThreshold(r) /\ mode THEN FALSE
             ELSE mode]
    ELSE [current_failure_rate |-> rate, degraded_mode |-> mode]

NoObservation == [valid |-> FALSE]

UpdateFailureRate(successful, total) ==
    LET m == update_failure_rate(degraded_mode, current_failure_rate,
                                 successful, total)
    IN  /\ OnlyDegradation
        /\ degraded_mode' = m.degraded_mode
        /\ current_failure_rate' = m.current_failure_rate
        /\ deg_call' = [valid |-> TRUE, successful |-> successful, total |-> total,
                        before |-> degraded_mode]
        /\ deg_query' = deg_query

\* a manager that tried syntax-only validation before the other strategies
degradation_strategies_syntax_first ==
    <<"SyntaxOnlyValidation", "SkipComplexExamples", "DisableHardwareTesting">>

\* degradation_strategies of GracefulDegradationManager::default(); the field is
\* private and written nowhere else
degradation_strategies ==
    <<"SkipComplexExamples", "DisableHardwareTesting", "SyntaxOnlyValidation">>

\* str::matches(p).count(): the matches found from left to right, each search
\* starting behind the match before
RECURSIVE MatchesFrom(_, _, _)
MatchesFrom(at, n, from) ==
    LET rest == {i \in at : i >= from} IN
    IF rest = {} THEN 0
    ELSE LET m == CHOOSE i \in rest : \A j \in rest : i <= j
         IN  1 + MatchesFrom(at, n, m + n)

MatchCount(s, p) ==
    MatchesFrom({i \in 1..(Len(s) - Len(p) + 1) : SubSeq(s, i, i + Len(p) - 1) = p},
                Len(p), 1)

complexity_score(code) ==
    MatchCount(code, "unsafe") * 3 + MatchCount(code, "impl") * 2
    + MatchCount(code, "trait") * 2 + MatchCount(code, "macro_rules!") * 3
    + MatchCount(code, "async") * 2 + MatchCount(code, "await") * 2

is_complex_example(example) ==
    complexity_score(example.code) > 5 \/ Len(Lines(example.code)) > 50

\* whether a strategy of the list applies to the example; every variant other
\* than the three below is passed over
StrategyApplies(strategy, example) ==
    IF strategy = "SkipComplexExamples" THEN is_complex_example(example)
    ELSE IF strategy = "DisableHardwareTesting" THEN example.context.kind = "Hardware"
    ELSE strategy = "SyntaxOnlyValidation"

should_degrade_example(mode, example) ==
    IF ~mode THEN None
    ELSE LET applicable == SelectSeq(degradation_strategies,
                                     LAMBDA st : StrategyApplies(st, example))
         IN  IF Len(applicable) > 0 THEN Some(Head(applicable)) ELSE None

RECURSIVE Repeated(_, _)
Repeated(s, n) ==
    IF n = 0 THEN ""
    ELSE LET half == Repeated(s, n \div 2)
         IN  half \o half \o (IF n % 2 = 1 THEN s ELSE "")

\* examples on both sides of the score limit 5 and of the line limit 50, in
\* hardware and other contexts
DegradationExamples ==
    {Example("doc_1", "doc.md", "fn main() { println!(\"hi\"); }", CtxStd(<<>>)),
     Example("doc_2", "doc.md", "unsafe impl Send for Port {}", CtxStd(<<>>)),
     Example("doc_3", "doc.md", "unsafe { a() }\nunsafe { b() }",
             CtxNoStd("thumbv7em-none-eabihf", <<>>)),
     Example("doc_4", "doc.md", Repeated("x();\n", 50), CtxStd(<<>>)),
     Example("doc_5", "doc.md", Repeated("x();\n", 51), CtxStd(<<>>)),
     Example("doc_6", "doc.md", "let led = pins.pa5;",
             CtxHardware("stm32f4", <<>>)),
     Example("doc_7", "doc.md",
             "impl Led for Pa5 {}\nimpl Led for Pa6 {}\ntrait Led {}",
             CtxHardware("stm32f4", <<>>)),
     Example("doc_8", "doc.md", "let key = [0u8; 32];",
             CtxCrypto("aes", <<>>))}

NoQuery == [valid |-> FALSE]

ShouldDegradeExample(example) ==
    /\ OnlyDegradation
    /\ deg_query' = [valid |-> TRUE, example |-> example, mode |-> degraded_mode,
                     strategy |-> should_degrade_example(degraded_mode, example)]
    /\ UNCHANGED <<degraded_mode, current_failure_rate, deg_call>>

-----------------------------------------------------------------------------
(* CodeExtractor, src/src/code_extractor.rs.  The annotations of a block are *)
(* a function from the keys present to Option<String>: a bare flag has the   *)
(* value None, key=value has Some(value).                                    *)

\* annotations.get(key).and_then(|v| v.as_ref())
AnnotationValue(annotations, key) ==
    IF key \in DOMAIN annotations THEN annotations[key] ELSE None

\* .filter(|s| !s.is_empty()) after .map(|s| s.trim())
RECURSIVE TrimmedNonEmpty(_)
TrimmedNonEmpty(seq) ==
    IF Len(seq) = 0 THEN <<>>
    ELSE IF Trim(seq[1]) = "" THEN TrimmedNonEmpty(Tail(seq))
    ELSE <<Trim(seq[1])>> \o TrimmedNonEmpty(Tail(seq))

extract_features(annotations) ==
    LET features_str == AnnotationValue(annotations, "features")
        listed == IF features_str # None
                  THEN TrimmedNonEmpty(Split(Unwrap(features_str), ","))
                  ELSE <<>>
        with_crypto == IF "crypto" \in DOMAIN annotations
                       THEN Append(listed, "crypto") ELSE listed
        with_hardware == IF "hardware" \in DOMAIN annotations
                         THEN Append(with_crypto, "hardware") ELSE with_crypto
    IN  Dedup(SortStrings(with_hardware))

crypto_patterns ==
    <<"zeroize", "Zeroize", "aes::", "Aes", "sha2::", "Sha256", "Sha512",
      "chacha20", "ChaCha20", "ed25519", "Ed25519", "rsa::", "RSA",
      "hmac::", "HMAC", "pbkdf2", "PBKDF2",
      "encrypt", "decrypt", "cipher", "hash_password", "verify_password",
      "sign_message", "verify_signature", "derive_key", "generate_key",
      "SecureKey", "CryptoError", "constant_time", "timing_safe",
      "secure_random", "crypto_random",
      "crypto_hardware", "hardware_rng", "secure_element",
      "private_key", "public_key", "secret_key", "master_key",
      "encryption_key", "signing_key", "key_pair", "KeyPair",
      "key.zeroize", "key_material", "derive_key">>

is_crypto_code(code) == ContainsAny(code, crypto_patterns)

detect_crypto_algorithm(code) ==
    IF Contains(code, "aes") \/ Contains(code, "Aes") THEN Some("AES")
    ELSE IF Contains(code, "sha") \/ Contains(code, "Sha") THEN Some("SHA")
    ELSE IF Contains(code, "chacha") \/ Contains(code, "ChaCha") THEN Some("ChaCha20")
    ELSE IF Contains(code, "ecdh") \/ Contains(code, "ECDH") THEN Some("ECDH")
    ELSE IF Contains(code, "rsa") \/ Contains(code, "RSA") THEN Some("RSA")
    ELSE IF Contains(code, "ed25519") \/ Contains(code, "Ed25519") THEN Some("Ed25519")
    ELSE None

hardware_keywords ==
    <<"stm32", "STM32", "cortex_m", "cortex-m", "embedded_hal", "hal::",
      "GPIO", "gpio::", "SPI", "spi::", "I2C", "i2c::", "UART", "uart::",
      "Timer", "timer::", "PWM", "pwm::", "ADC", "adc::", "DMA", "dma::",
      "interrupt", "Interrupt", "NVIC", "nvic", "pac::", "PAC",
      "rcc::", "RCC", "clocks", "Clocks", "pins", "Pins">>

is_hardware_code(code) == ContainsAny(code, hardware_keywords)

detect_hardware_platform(code) ==
    IF Contains(code, "stm32f4") \/ Contains(code, "STM32F4") THEN Some("STM32F4")
    ELSE IF Contains(code, "stm32f3") \/ Contains(code, "STM32F3") THEN Some("STM32F3")
    ELSE IF Contains(code, "stm32l4") \/ Contains(code, "STM32L4") THEN Some("STM32L4")
    ELSE IF Contains(code, "nrf52") \/ Contains(code, "NRF52") THEN Some("nRF52")
    ELSE IF Contains(code, "esp32") \/ Contains(code, "ESP32") THEN Some("ESP32")
    ELSE IF Contains(code, "rp2040") \/ Contains(code, "RP2040") THEN Some("RP2040")
    ELSE IF Contains(code, "cortex_m") \/ Contains(code, "cortex-m") THEN Some("Cortex-M")
    ELSE None

no_std_indicators ==
    <<"heapless::", "nb::", "cortex_m", "embedded_hal",
      "panic_halt", "panic_abort", "panic_semihosting",
      "#[no_mangle]", "extern \"C\"", "core::", "alloc::">>

is_no_std_code(code) ==
    IF Contains(code, "#![no_std]") \/ Contains(code, "#![no_main]") THEN TRUE
    ELSE LET has_no_std_indicators == ContainsAny(code, no_std_indicators)
             has_std_indicators == \/ Contains(code, "std::")
                                   \/ Contains(code, "println!")
                                   \/ Contains(code, "main()")
         IN  has_no_std_indicators /\ ~has_std_indicators

is_snippet_code(untrimmed) ==
    LET code == Trim(untrimmed) IN
    IF code = "" \/ Len(code) < 10 THEN TRUE
    ELSE
    LET has_main == Contains(code, "fn main") \/ Contains(code, "fn main()")
        has_entry == Contains(code, "#[entry]") \/ Contains(code, "cortex_m_rt::entry")
        has_test == Contains(code, "#[test]")
        has_function == Contains(code, "fn ") /\ ~StartsWith(code, "fn ")
        has_struct_impl == Contains(code, "struct ") \/ Contains(code, "impl ")
        lines == Lines(code)
    IN  IF has_main \/ has_entry \/ has_test \/ has_function \/ has_struct_impl
        THEN FALSE
        ELSE \/ StartsWith(code, "let ") /\ ~Contains(code, "fn ")
             \/ Len(lines) <= 3 /\ ~Contains(code, "{") /\ ~Contains(code, "}")
             \/ \A i \in 1..Len(lines) :
                   StartsWith(Trim(lines[i]), "//") \/ Trim(lines[i]) = ""
             \/ Contains(code, "...") \/ Contains(code, "// ...")

infer_context(annotations, code) ==
    LET target == IF AnnotationValue(annotations, "target") # None
                  THEN Unwrap(AnnotationValue(annotations, "target"))
                  ELSE "thumbv7em-none-eabihf"
    IN
    IF "snippet" \in DOMAIN annotations
    THEN CtxSnippet(IF AnnotationValue(annotations, "snippet") # None
                    THEN Unwrap(AnnotationValue(annotations, "snippet"))
                    ELSE "incomplete code")
    ELSE IF AnnotationValue(annotations, "hardware") # None
    THEN CtxHardware(Unwrap(AnnotationValue(annotations, "hardware")),
                     extract_features(annotations))
    ELSE IF "no_std" \in DOMAIN annotations
    THEN CtxNoStd(target, extract_features(annotations))
    ELSE IF "crypto" \in DOMAIN annotations
    THEN CtxCrypto(IF AnnotationValue(annotations, "algorithm") # None
                   THEN AnnotationValue(annotations, "algorithm")
                   ELSE detect_crypto_algorithm(code),
                   extract_features(annotations))
    ELSE IF is_no_std_code(code)
    THEN CtxNoStd(target, extract_features(annotations))
    ELSE IF is_hardware_code(code)
    THEN CtxHardware(IF detect_hardware_platform(code) # None
                     THEN Unwrap(detect_hardware_platform(code))
                     ELSE "generic",
                     extract_features(annotations))
    ELSE IF is_crypto_code(code)
    THEN CtxCrypto(detect_crypto_algorithm(code), extract_features(annotations))
    ELSE IF is_snippet_code(code)
    THEN CtxSnippet("appears to be incomplete code")
    ELSE CtxStd(extract_features(annotations))

\* the values an annotation key has in the blocks of the model: absent, a bare
\* flag, or key=value
AnnotationChoices ==
    [snippet  |-> {"absent", "bare", "incomplete"},
     fragment |-> {"absent", "bare"},
     hardware |-> {"absent", "bare", "STM32F4"},
     no_std   |-> {"absent", "bare"},
     crypto   |-> {"absent", "bare"},
     features |-> {"absent", " hardware, advanced,,crypto"},
     target   |-> {"absent", "thumbv6m-none-eabi"},
     algorithm |-> {"absent", "ChaCha20"}]

\* the annotation map of one choice per key, as parse_annotations builds it
AnnotationsOf(choice) ==
    [key \in {k \in DOMAIN choice : choice[k] # "absent"} |->
        IF choice[key] = "bare" THEN None ELSE Some(choice[key])]

BlockAnnotations ==
    {AnnotationsOf(choice) :
        choice \in [snippet : AnnotationChoices.snippet,
                    fragment : AnnotationChoices.fragment,
                    hardware : AnnotationChoices.hardware,
                    no_std : AnnotationChoices.no_std,
                    crypto : AnnotationChoices.crypto,
                    features : AnnotationChoices.features,
                    target : AnnotationChoices.target,
                    algorithm : AnnotationChoices.algorithm]}

\* the code texts of the blocks of the model
BlockCodes ==
    {"fn main() { println!(\"x\"); }",
     "#![no_std]\nuse cortex_m::asm;",
     "use stm32f4xx_hal::gpio::*;\nfn main() { let pins = gpioa.split(); }",
     "fn main() { let c = Aes128::new(&key); }",
     "let key = generate_key();",
     "let x = 5;",
     ""}

NotClassified == [valid |-> FALSE, stage |-> "none"]

NotParsed == [valid |-> FALSE]

NotExtracted == [valid |-> FALSE]

\* extract_from_content finds the opening fence of a block and takes its annotations
ReadFence(annotations) ==
    /\ OnlyExtractor
    /\ classified.stage \in {"none", "classified"}
    /\ classified' = [valid |-> FALSE, stage |-> "fence", annotations |-> annotations]

\* extract_from_content collects the code lines up to the closing fence
ReadCode(code) ==
    /\ OnlyExtractor
    /\ classified.stage = "fence"
    /\ classified' = [valid |-> FALSE, stage |-> "code",
                      annotations |-> classified.annotations, code |-> code]

\* extract_from_content classifies the block
InferContext ==
    /\ OnlyExtractor
    /\ classified.stage = "code"
    /\ classified' = [valid |-> TRUE, stage |-> "classified",
                      annotations |-> classified.annotations,
                      code |-> classified.code,
                      context |-> infer_context(classified.annotations,
                                                classified.code)]

-----------------------------------------------------------------------------
(* DependencyResolver, src/src/dependency_resolver.rs *)

\* str::strip_prefix(p) of a string that starts with p
StripPrefix(s, p) == SubSeq(s, Len(p) + 1, Len(s))

\* s.split(sep).next(): the text before the first occurrence of sep
BeforeFirst(s, sep) ==
    LET at == {i \in 1..Len(s) : StartsWith(SubSeq(s, i, Len(s)), sep)} IN
    SubSeq(s, 1, NthPosition(at, 1, Len(s) + 1) - 1)

\* the leading characters of s that are not whitespace
LeadingWord(s) ==
    LET at == {i \in 1..Len(s) : IsWhitespace(CharAt(s, i))} IN
    SubSeq(s, 1, NthPosition(at, 1, Len(s) + 1) - 1)

\* s.split_whitespace().next()
FirstWord(s) ==
    IF TrimStart(s) = "" THEN None ELSE Some(LeadingWord(TrimStart(s)))

\* str::trim_end_matches(c)
RECURSIVE TrimEndMatches(_, _)
TrimEndMatches(s, c) ==
    IF Len(s) > 0 /\ CharAt(s, Len(s)) = c
    THEN TrimEndMatches(SubSeq(s, 1, Len(s) - 1), c)
    ELSE s

\* str::replace(from, to) for a one-character pattern
RECURSIVE Replace(_, _, _)
Replace(s, from, to) ==
    IF Len(s) = 0 THEN ""
    ELSE (IF CharAt(s, 1) = from THEN to ELSE CharAt(s, 1))
         \o Replace(SubSeq(s, 2, Len(s)), from, to)

\* Dependency::new(name, version)
Dependency(name, version) ==
    [name |-> name, version |-> version, features |-> <<>>, optional |-> FALSE,
     target |-> None, default_features |-> TRUE]

DependencyInfo(version, default_features, no_default_features, targets) ==
    [version |-> version, default_features |-> default_features,
     no_default_features |-> no_default_features, targets |-> targets]

\* DependencyResolver::new(): the catalog
dependency_catalog ==
    [heapless |-> DependencyInfo("0.8", <<>>, FALSE, <<"thumbv*">>)] @@
    ("cortex-m" :> DependencyInfo("0.7", <<>>, FALSE, <<"thumbv*">>)) @@
    ("cortex-m-rt" :> DependencyInfo("0.7", <<>>, FALSE, <<"thumbv*">>)) @@
    ("embedded-hal" :> DependencyInfo("1.0", <<>>, FALSE, <<"thumbv*">>)) @@
    ("panic-halt" :> DependencyInfo("0.2", <<>>, FALSE, <<"thumbv*">>)) @@
    ("panic-abort" :> DependencyInfo("0.3", <<>>, FALSE, <<"thumbv*">>)) @@
    ("zeroize" :> DependencyInfo("1.7", [std |-> <<"derive">>, crypto |-> <<"derive">>],
                                 FALSE, <<>>)) @@
    ("aes" :> DependencyInfo("0.8", <<>>, TRUE, <<>>)) @@
    ("sha2" :> DependencyInfo("0.10", <<>>, TRUE, <<>>)) @@
    ("chacha20" :> DependencyInfo("0.9", <<>>, TRUE, <<>>)) @@
    ("ed25519-dalek" :> DependencyInfo("2.0", <<>>, TRUE, <<>>)) @@
    ("rand" :> DependencyInfo("0.8", [std |-> <<"std">>, no_std |-> <<"small_rng">>],
                              FALSE, <<>>)) @@
    ("rand_core" :> DependencyInfo("0.6", <<>>, TRUE, <<>>)) @@
    ("stm32f4xx-hal" :> DependencyInfo("0.19", [hardware |-> <<"stm32f407">>], FALSE,
                                       <<"thumbv7em-none-eabihf">>)) @@
    ("stm32f3xx-hal" :> DependencyInfo("0.10", [hardware |-> <<"stm32f303xc">>], FALSE,
                                       <<"thumbv7em-none-eabihf">>)) @@
    ("nrf52840-hal" :> DependencyInfo("0.16", <<>>, FALSE, <<"thumbv7em-none-eabihf">>))

extract_crate_name_from_use(use_line) ==
    LET use_content == StripPrefix(use_line, "use ")
        first_part == BeforeFirst(use_content, "::")
        word == FirstWord(first_part)
    IN  IF word = None THEN None
        ELSE LET crate_name == TrimEndMatches(Unwrap(word), ";")
                 normalized_name == Replace(crate_name, "_", "-")
             IN  IF normalized_name \in {"std", "core", "alloc", "self", "super", "crate"}
                 THEN None
                 ELSE Some(normalized_name)

\* the pushes onto dependencies, pattern by pattern
detect_implicit_dependencies(code) ==
    (IF Contains(code, "#[panic_handler]") \/ Contains(code, "panic_halt")
     THEN <<"panic-halt">> ELSE <<>>) \o
    (IF Contains(code, "panic_abort") THEN <<"panic-abort">> ELSE <<>>) \o
    (IF Contains(code, "#[entry]") \/ Contains(code, "cortex_m_rt::entry")
     THEN <<"cortex-m-rt">> ELSE <<>>) \o
    (IF Contains(code, "embedded_hal") THEN <<"embedded-hal">> ELSE <<>>) \o
    (IF Contains(code, "stm32f4") \/ Contains(code, "STM32F4")
     THEN <<"stm32f4xx-hal">> ELSE <<>>) \o
    (IF Contains(code, "stm32f3") \/ Contains(code, "STM32F3")
     THEN <<"stm32f3xx-hal">> ELSE <<>>) \o
    (IF Contains(code, "nrf52") \/ Contains(code, "NRF52")
     THEN <<"nrf52840-hal">> ELSE <<>>) \o
    (IF Contains(code, "Aes") \/ Contains(code, "aes::") THEN <<"aes">> ELSE <<>>) \o
    (IF Contains(code, "Sha") \/ Contains(code, "sha2::") THEN <<"sha2">> ELSE <<>>) \o
    (IF Contains(code, "ChaCha") \/ Contains(code, "chacha20::")
     THEN <<"chacha20">> ELSE <<>>) \o
    (IF Contains(code, "Ed25519") \/ Contains(code, "ed25519")
     THEN <<"ed25519-dalek">> ELSE <<>>) \o
    (IF Contains(code, "rand::") \/ Contains(code, "Rng") THEN <<"rand">> ELSE <<>>) \o
    (IF Contains(code, "rand_core::") \/ Contains(code, "RngCore")
     THEN <<"rand_core">> ELSE <<>>)

\* the crate names one line of the code contributes
LineDependencies(untrimmed) ==
    LET line == Trim(untrimmed)
        from_use ==
            IF /\ StartsWith(line, "use ")
               /\ ~StartsWith(line, "use std::")
               /\ ~StartsWith(line, "use core::")
               /\ ~StartsWith(line, "use alloc::")
               /\ extract_crate_name_from_use(line) # None
            THEN <<Unwrap(extract_crate_name_from_use(line))>>
            ELSE <<>>
        word == FirstWord(StripPrefix(line, "extern crate "))
        crate_name == TrimEndMatches(IF word = None THEN "" ELSE Unwrap(word), ";")
        from_extern ==
            IF StartsWith(line, "extern crate ") /\ crate_name # ""
            THEN <<crate_name>>
            ELSE <<>>
    IN  from_use \o from_extern

RECURSIVE LinesDependencies(_)
LinesDependencies(lines) ==
    IF Len(lines) = 0 THEN <<>>
    ELSE LineDependencies(lines[1]) \o LinesDependencies(Tail(lines))

\* the detected names as pushed, without the final sort() and dedup()
detected_as_pushed(code) ==
    LinesDependencies(Lines(code)) \o detect_implicit_dependencies(code)

detect_dependencies_from_code(code) ==
    Dedup(SortStrings(LinesDependencies(Lines(code))
                      \o detect_implicit_dependencies(code)))

\* dep_info.default_features.get(key), applied by with_features
ContextFeatures(dep_info, key) ==
    IF key \in DOMAIN dep_info.default_features
    THEN dep_info.default_features[key]
    ELSE <<>>

\* all_features.extend(features); sort(); dedup()
AllFeatures(own, features) == Dedup(SortStrings(own \o features))

\* the dependency built for a catalogued crate in a context that compiles
CataloguedDependency(dep_name, dep_info, context) ==
    LET dependency == Dependency(dep_name, dep_info.version) IN
    CASE context.kind = "Std" ->
            [dependency EXCEPT
                !.features = AllFeatures(ContextFeatures(dep_info, "std"),
                                         context.features)]
      [] context.kind = "NoStd" ->
            [dependency EXCEPT
                !.features = AllFeatures(ContextFeatures(dep_info, "no_std"),
                                         context.features),
                !.default_features = ~dep_info.no_default_features,
                !.target = IF Len(dep_info.targets) > 0
                           THEN Some(context.target) ELSE None]
      [] context.kind = "Hardware" ->
            [dependency EXCEPT
                !.features = AllFeatures(ContextFeatures(dep_info, "hardware"),
                                         context.features),
                !.default_features = ~dep_info.no_default_features]
      [] context.kind = "Crypto" ->
            [dependency EXCEPT
                !.features = AllFeatures(ContextFeatures(dep_info, "crypto"),
                                         context.features),
                !.default_features = ~dep_info.no_default_features]

\* the dependency built for a crate the catalog does not know
UnknownDependency(dep_name, context) ==
    [Dependency(dep_name, "1.0") EXCEPT
        !.default_features = context.kind \notin {"NoStd", "Hardware"}]

\* the loop of resolve_dependencies over the detected names
RECURSIVE ResolveEach(_, _, _)
ResolveEach(detected_deps, seen, context) ==
    IF Len(detected_deps) = 0 THEN <<>>
    ELSE LET dep_name == detected_deps[1]
             rest == Tail(detected_deps)
         IN  IF dep_name \in seen THEN ResolveEach(rest, seen, context)
             ELSE IF dep_name \in DOMAIN dependency_catalog
             THEN IF context.kind = "Snippet"
                  THEN ResolveEach(rest, seen \cup {dep_name}, context)
                  ELSE <<CataloguedDependency(dep_name, dependency_catalog[dep_name],
                                              context)>>
                       \o ResolveEach(rest, seen \cup {dep_name}, context)
             ELSE <<UnknownDependency(dep_name, context)>>
                  \o ResolveEach(rest, seen \cup {dep_name}, context)

resolve_dependencies(example) ==
    ResolveEach(detect_dependencies_from_code(example.code), {}, example.context)

\* the code texts and contexts of the examples given to the resolver
ResolverCodes ==
    {"let key = generate_key();",
     "use foo::bar;\nlet x = bar();",
     "use serde_json::Value;\nuse aes::Aes128;",
     "use std::fmt;\nuse core::mem;\nfn main() {}",
     "extern crate panic_halt;\nuse cortex_m_rt::entry;\n#[entry]\nfn main() -> ! { loop {} }",
     "use zeroize::Zeroize;\nuse rand::Rng;",
     "  use stm32f4xx_hal as hal;\nuse heapless::Vec;",
     "use embedded_hal::digital::OutputPin;",
     "let h = Sha256::new();",
     "use crate::util;\nuse self::x;",
     "extern crate alloc;",
     ""}

ResolverContexts ==
    {CtxStd(<<>>), CtxStd(<<"serde">>),
     CtxNoStd("thumbv7em-none-eabihf", <<>>),
     CtxNoStd("thumbv6m-none-eabi", <<"small_rng", "crypto">>),
     CtxHardware("STM32F4", <<"hardware">>),
     CtxCrypto(Some("AES"), <<"crypto">>), CtxCrypto(None, <<>>),
     CtxSnippet("incomplete code"), CtxSnippet("appears to be incomplete code")}

NotResolved == [valid |-> FALSE]

\* the example a call is given
ResolverExample(code, context) == Example("doc_1", "doc.md", code, context)

\* what resolve_dependencies returns for each of these examples
Resolutions ==
    [code \in ResolverCodes |->
        [context \in ResolverContexts |->
            resolve_dependencies(ResolverExample(code, context))]]

ResolveDependencies(code, context) ==
    LET example == ResolverExample(code, context) IN
    /\ OnlyResolver
    /\ resolved' = [valid |-> TRUE, example |-> example,
                    dependencies |-> Resolutions[code][context],
                    previous |-> IF resolved.valid
                                 THEN [valid |-> TRUE, example |-> resolved.example,
                                       dependencies |-> resolved.dependencies]
                                 ELSE NotResolved]
    /\ manifest' = manifest

-----------------------------------------------------------------------------
(* ToolchainManager, src/src/toolchain_manager.rs.  The manager knows nine   *)
(* targets; which of them are installed is found out at construction.        *)

\* initialize_targets: the known targets and their types
known_target_type ==
    ("x86_64-unknown-linux-gnu" :> "Std") @@
    ("x86_64-pc-windows-msvc" :> "Std") @@
    ("x86_64-apple-darwin" :> "Std") @@
    ("thumbv7em-none-eabihf" :> "Embedded") @@
    ("thumbv6m-none-eabi" :> "Embedded") @@
    ("thumbv7m-none-eabi" :> "Embedded") @@
    ("thumbv8m.main-none-eabihf" :> "Embedded") @@
    ("riscv32imac-unknown-none-elf" :> "Embedded") @@
    ("riscv64gc-unknown-none-elf" :> "Embedded")

\* the match on (target_type, no_std, embedded_mode)
TargetCompatible(target_type, config) ==
    \/ target_type = "Std" /\ ~config.no_std /\ ~config.embedded_mode
    \/ target_type = "NoStd" /\ config.no_std
    \/ target_type = "Embedded" /\ config.no_std /\ config.embedded_mode

\* the configured targets that are known, installed and compatible, in order
RECURSIVE ConfiguredAvailable(_, _, _)
ConfiguredAvailable(targets, installed, config) ==
    IF Len(targets) = 0 THEN <<>>
    ELSE (IF /\ targets[1] \in DOMAIN known_target_type
             /\ targets[1] \in installed
             /\ TargetCompatible(known_target_type[targets[1]], config)
          THEN <<targets[1]>> ELSE <<>>)
         \o ConfiguredAvailable(Tail(targets), installed, config)

\* get_available_targets: the lists it can return.  The fallback for embedded mode
\* takes the first installed Embedded target in the iteration order of a HashMap,
\* which is any of them.
get_available_targets(installed, config) ==
    LET available == ConfiguredAvailable(config.targets, installed, config)
        embedded == {t \in installed \cap DOMAIN known_target_type :
                        known_target_type[t] = "Embedded"}
    IN  IF Len(available) > 0 THEN {available}
        ELSE IF config.embedded_mode
        THEN IF embedded = {} THEN {<<>>} ELSE {<<t>> : t \in embedded}
        ELSE {<<"x86_64-unknown-linux-gnu">>}

NoLookup == [valid |-> FALSE]

\* the configurations and the sets of installed targets of a lookup
LookupTargets ==
    {<<>>, <<"x86_64-unknown-linux-gnu">>,
     <<"thumbv7em-none-eabihf", "thumbv6m-none-eabi">>,
     <<"wasm32-unknown-unknown", "thumbv6m-none-eabi", "x86_64-unknown-linux-gnu">>}

LookupInstalled ==
    {{}, {"x86_64-unknown-linux-gnu"}, {"thumbv6m-none-eabi"},
     {"x86_64-unknown-linux-gnu", "thumbv6m-none-eabi"},
     {"x86_64-unknown-linux-gnu", "thumbv7em-none-eabihf", "thumbv6m-none-eabi"},
     {"x86_64-apple-darwin", "riscv32imac-unknown-none-elf"},
     {"thumbv7em-none-eabihf", "riscv64gc-unknown-none-elf"}}

\* manager.get_available_targets(&config) on a manager with these installed targets
GetAvailableTargets(targets, no_std, embedded_mode, installed) ==
    LET config == [TestConfigDefault EXCEPT !.targets = targets, !.no_std = no_std,
                                            !.embedded_mode = embedded_mode]
    IN  /\ OnlyToolchain
        /\ \E result \in get_available_targets(installed, config) :
              target_lookup' = [valid |-> TRUE, config |-> config, installed |-> installed,
                            targets |-> result]

-----------------------------------------------------------------------------
(* TestResult and ValidationReport, src/src/test_config.rs.  Durations are   *)
(* whole seconds.                                                            *)

TestResult(example_id, success, time, target, error, warnings, stdout, stderr) ==
    [example_id |-> example_id, success |-> success,
     compilation_time |-> time, target |-> target, error |-> error,
     warnings |-> warnings, stdout |-> stdout, stderr |-> stderr]

\* TestResult::failure
TestResultFailure(example_id, target, compilation_time, error, stderr) ==
    TestResult(example_id, FALSE, compilation_time, target, Some(error), <<>>, "",
               stderr)

\* the result of an example that is not compiled
SkippedResult(example) ==
    TestResult(example.id, TRUE, 0, "skipped", None, <<>>,
               "Skipped (marked as snippet)", "")

\* the result of an example for which no target is available
NoTargetResult(example) ==
    TestResultFailure(example.id, "none", 0,
                      TargetError("none", "No compatible targets available"),
                      "No targets available for testing")

\* ValidationReport::new
\* RecoveryStatistics::default()
NoRecoveryStatistics ==
    [successful_recoveries |-> 0, failed_recoveries |-> 0, marked_as_snippets |-> 0,
     fallback_attempts |-> 0, feature_disabling_attempts |-> 0,
     timeout_extensions |-> 0]

NewReport ==
    [total_examples |-> 0, successful |-> 0, failed |-> 0, skipped |-> 0,
     snippets |-> 0, recovered |-> 0, results |-> <<>>, total_duration |-> 0,
     recovery_stats |-> NoRecoveryStatistics]

\* a report that keeps successful results only
add_successful_result(report, result) ==
    IF result.success
    THEN [report EXCEPT !.total_examples = @ + 1, !.successful = @ + 1,
                        !.total_duration = @ + result.compilation_time,
                        !.results = Append(@, result)]
    ELSE report

\* ValidationReport::add_result
add_result(report, result) ==
    [report EXCEPT
        !.total_examples = @ + 1,
        !.total_duration = @ + result.compilation_time,
        !.successful = IF result.success THEN @ + 1 ELSE @,
        !.failed = IF result.success THEN @ ELSE @ + 1,
        !.results = Append(@, result)]

\* a report that counts a skipped example without recording it
skip_example_unrecorded(report, example_id, reason) ==
    [report EXCEPT !.skipped = @ + 1]

\* ValidationReport::skip_example
skip_example(report, example_id, reason) ==
    [report EXCEPT
        !.total_examples = @ + 1,
        !.skipped = @ + 1,
        !.results = Append(@, TestResult(example_id, FALSE, 0, "skipped",
                                Some(CompilationFailed(0, "Skipped: " \o reason)),
                                <<>>, "", ""))]

\* ValidationReport::mark_as_snippet
mark_as_snippet(report, example_id, reason) ==
    [report EXCEPT
        !.total_examples = @ + 1,
        !.snippets = @ + 1,
        !.results = Append(@, TestResult(example_id, TRUE, 0, "snippet", None, <<>>,
                                         "Marked as snippet: " \o reason, ""))]

\* ValidationReport::record_recovery
record_recovery(report, example_id, recovery_type) ==
    [report EXCEPT
        !.recovered = @ + 1,
        !.recovery_stats =
            CASE recovery_type = "snippet" -> [@ EXCEPT !.marked_as_snippets = @ + 1]
              [] recovery_type = "fallback" -> [@ EXCEPT !.fallback_attempts = @ + 1]
              [] recovery_type = "feature_disable" ->
                    [@ EXCEPT !.feature_disabling_attempts = @ + 1]
              [] recovery_type = "timeout_extend" ->
                    [@ EXCEPT !.timeout_extensions = @ + 1]
              [] OTHER -> @]

\* ValidationReport::record_failed_recovery
record_failed_recovery(report) ==
    [report EXCEPT !.recovery_stats.failed_recoveries = @ + 1]

\* ValidationReport::record_successful_recovery
record_successful_recovery(report) ==
    [report EXCEPT !.recovery_stats.successful_recoveries = @ + 1]

\* the calls made on the report so far
ReportCalls ==
    validation_report.total_examples + validation_report.recovered
    + validation_report.recovery_stats.failed_recoveries
    + validation_report.recovery_stats.successful_recoveries

\* results of compilations as the tester hands them to add_result
ReportResults ==
    {TestResult("doc_1", TRUE, 2, "x86_64-unknown-linux-gnu", None, <<>>, "", ""),
     TestResultFailure("doc_2", "x86_64-unknown-linux-gnu", 1,
                       CompilationFailed(101, "error: linker 'cc' not found"), "")}

RecoveryTypes == {"snippet", "fallback", "feature_disable", "timeout_extend", "retry"}

AddResult(result) ==
    /\ OnlyReport
    /\ ReportCalls < MaxReportCalls
    /\ validation_report' = add_result(validation_report, result)

SkipExample(example_id, reason) ==
    /\ OnlyReport
    /\ ReportCalls < MaxReportCalls
    /\ validation_report' = skip_example(validation_report, example_id, reason)

MarkAsSnippet_(example_id, reason) ==
    /\ OnlyReport
    /\ ReportCalls < MaxReportCalls
    /\ validation_report' = mark_as_snippet(validation_report, example_id, reason)

RecordRecovery(example_id, recovery_type) ==
    /\ OnlyReport
    /\ ReportCalls < MaxReportCalls
    /\ validation_report' = record_recovery(validation_report, example_id,
                                            recovery_type)

RecordFailedRecovery ==
    /\ OnlyReport
    /\ ReportCalls < MaxReportCalls
    /\ validation_report' = record_failed_recovery(validation_report)

RecordSuccessfulRecovery ==
    /\ OnlyReport
    /\ ReportCalls < MaxReportCalls
    /\ validation_report' = record_successful_recovery(validation_report)

-----------------------------------------------------------------------------
(* RustExampleTester, src/src/example_tester.rs *)

\* str::find(c): the position of the first c in s, 0 when there is none
FindChar(s, c) ==
    IF \E i \in 1..Len(s) : CharAt(s, i) = c
    THEN CHOOSE i \in 1..Len(s) :
            CharAt(s, i) = c /\ \A j \in 1..(i - 1) : CharAt(s, j) # c
    ELSE 0

IsDigit(c) == Contains("0123456789", c) /\ Len(c) = 1

RECURSIVE DigitsValue(_)
DigitsValue(s) ==
    IF Len(s) = 0 THEN 0
    ELSE DigitsValue(SubSeq(s, 1, Len(s) - 1)) * 10
         + (Rank(CharAt(s, Len(s))) - Rank("0"))

\* str::parse::<usize>(): decimal digits after an optional plus sign
ParseUsize(s) ==
    LET digits == IF StartsWith(s, "+") THEN SubSeq(s, 2, Len(s)) ELSE s IN
    IF Len(digits) > 0 /\ \A i \in 1..Len(digits) : IsDigit(CharAt(digits, i))
    THEN Some(DigitsValue(digits))
    ELSE None

\* the number between the first two colons of a line, if it is one
LineNumberOf(line) ==
    LET colon_pos == FindChar(line, ":")
        after_colon == SubSeq(line, colon_pos + 1, Len(line))
        second_colon == FindChar(after_colon, ":")
    IN  IF colon_pos = 0 \/ second_colon = 0 THEN None
        ELSE ParseUsize(SubSeq(after_colon, 1, second_colon - 1))

RECURSIVE FirstLineNumber(_)
FirstLineNumber(lines) ==
    IF Len(lines) = 0 THEN None
    ELSE IF LineNumberOf(lines[1]) # None THEN LineNumberOf(lines[1])
    ELSE FirstLineNumber(Tail(lines))

extract_line_number(stderr) == FirstLineNumber(Lines(stderr))

RECURSIVE WarningLines(_)
WarningLines(lines) ==
    IF Len(lines) = 0 THEN <<>>
    ELSE (IF Contains(lines[1], "warning:") THEN <<lines[1]>> ELSE <<>>)
         \o WarningLines(Tail(lines))

extract_warnings(stderr) == WarningLines(Lines(stderr))

\* exit_code: Option<i32>
parse_compilation_error(stderr, exit_code) ==
    IF Contains(stderr, "error[E")
    THEN SyntaxError(IF Len(Lines(stderr)) > 0 THEN Lines(stderr)[1]
                     ELSE "Unknown syntax error",
                     extract_line_number(stderr), None)
    ELSE IF Contains(stderr, "could not find") /\ Contains(stderr, "Cargo.toml")
    THEN DependencyError(<<"Unknown dependency">>)
    ELSE CompilationFailed(IF exit_code = None THEN -1 ELSE Unwrap(exit_code), stderr)

\* Path::join
PathJoin(dir, name) == dir \o "/" \o name

\* compile_example: project_dir = temp_dir.join(&example.id)
ProjectDir(temp_dir, example) == PathJoin(temp_dir, example.id)

\* create_test_project: main.rs or lib.rs
SourceFileName(example) ==
    IF Contains(example.code, "fn main") \/ Contains(example.code, "#[entry]")
    THEN "main.rs" ELSE "lib.rs"

\* the paths create_test_project has made when it fails at, or passes, each step
ProjectPaths(project_dir, example, step) ==
    CASE step = "project_dir" -> {}
      [] step = "cargo_toml" -> {project_dir}
      [] step = "src_dir" -> {project_dir, PathJoin(project_dir, "Cargo.toml")}
      [] step = "source" -> {project_dir, PathJoin(project_dir, "Cargo.toml"),
                             PathJoin(project_dir, "src")}
      [] step = "done" -> {project_dir, PathJoin(project_dir, "Cargo.toml"),
                           PathJoin(project_dir, "src"),
                           PathJoin(PathJoin(project_dir, "src"),
                                    SourceFileName(example))}

\* the IoError of a failed step (its message without the operating system's text)
IoFailure(step) ==
    CASE step = "temp_dir" -> IoError("Failed to create temporary directory")
      [] step = "project_dir" -> IoError("Failed to create project directory")
      [] step = "cargo_toml" -> IoError("Failed to write Cargo.toml")
      [] step = "src_dir" -> IoError("Failed to create src directory")
      [] step = "source" -> IoError("Failed to write source file")
      [] step = "spawn" -> IoError("Failed to spawn process")
      [] step = "wait" -> IoError("Failed to wait for process")

\* fs::remove_dir_all(dir): the paths that remain
RemoveDirAll(paths, dir) ==
    {p \in paths : p # dir /\ ~StartsWith(p, dir \o "/")}

\* what the last drop of a tester did: the paths the tester had made, those its
\* drop removed, and those of its own that were left
NoDrop == [valid |-> FALSE, made |-> {}, removed |-> {}, remaining |-> {}]

NoTester == [alive |-> FALSE, config |-> TestConfigDefault, installed |-> {},
             temp_dir |-> None, made |-> {}, last_drop |-> NoDrop]

NoTesterCall == [api |-> "none", examples |-> <<>>, queue |-> <<>>, results |-> <<>>,
                 report |-> NewReport, lookups |-> 0, spawns |-> 0, created |-> 0,
                 projects |-> {}]

NoChild == [running |-> FALSE, elapsed |-> 0, example_id |-> "", target |-> ""]

NoReturn == [valid |-> FALSE]

\* one pending invocation of test_example (via = "test_example", no target yet) or
\* of test_example_with_target
Item(via, example, target) == [via |-> via, example |-> example, target |-> target]

\* the steps at which the preparation of a compilation can fail, and "ok"
IoOutcomes == {"ok", "temp_dir", "project_dir", "cargo_toml", "src_dir", "source",
               "spawn"}

\* compile_example up to the spawn of cargo check: io says which step fails, if any.
\* The outcome names the error (if any), the tester's temp_dir and the paths on disk
\* afterwards, and how many directories were created.
PrepareCompilation(example, io) ==
    LET work_dir == tester.config.work_dir
        had_temp == tester.temp_dir # None
        project_dir == ProjectDir(work_dir, example)
        step == IF io \in {"ok", "spawn"} THEN "done" ELSE io
        made == IF io = "temp_dir" THEN {}
                ELSE {work_dir} \cup ProjectPaths(project_dir, example, step)
        dirs == made \cap {work_dir, project_dir, PathJoin(project_dir, "src")}
    IN  [error |-> IF io = "ok" THEN None ELSE Some(IoFailure(io)),
         temp_dir |-> IF io = "temp_dir" THEN None ELSE Some(work_dir),
         disk |-> disk \cup made,
         created |-> Cardinality(dirs \ disk)]

\* the result pushed for the failed preparation of a compilation
PreparationFailed(example, target, prepared) ==
    TestResultFailure(example.id, target, 0, Unwrap(prepared.error), "")

\* the tester returns from the call
Return(call) ==
    /\ t_ret' = [valid |-> TRUE, api |-> call.api, examples |-> call.examples,
                 results |-> call.results, report |-> call.report,
                 lookups |-> call.lookups, spawns |-> call.spawns,
                 created |-> call.created, projects |-> call.projects]
    /\ t_call' = NoTesterCall
    /\ t_pc' = "idle"

\* a result is ready for the item at the head of the queue: push it (into the report
\* too, for validate_examples), and go on with the next item or return
Finish(call, result) ==
    LET next == [call EXCEPT
                    !.queue = Tail(@),
                    !.results = Append(@, result),
                    !.report = IF call.api = "validate_examples"
                               THEN add_result(@, result) ELSE @]
    IN  IF Len(next.queue) = 0
        THEN Return(next)
        ELSE /\ t_call' = next
             /\ t_pc' = "next"
             /\ t_ret' = NoReturn

\* test_example_with_target(example, target) up to the spawn of the compiler
WithTarget(call0, example, target, io) ==
    IF ~should_compile(example.context)
    THEN /\ io = "ok"
         /\ Finish(call0, SkippedResult(example))
         /\ UNCHANGED <<tester, disk, child>>
    ELSE LET prepared == PrepareCompilation(example, io)
             \* the unit (example, target) calls create_test_project on its project_dir
             unit == IF io = "temp_dir" THEN {}
                     ELSE {[example |-> example, target |-> target,
                            project_dir |-> ProjectDir(tester.config.work_dir, example)]}
             call == [call0 EXCEPT !.projects = @ \cup unit]
         IN
         /\ io = "temp_dir" => tester.temp_dir = None
         /\ tester' = [tester EXCEPT !.temp_dir = prepared.temp_dir,
                                     !.made = @ \cup (prepared.disk \ disk)]
         /\ disk' = prepared.disk
         /\ IF io = "ok"
            THEN /\ child' = [running |-> TRUE, elapsed |-> 0,
                              example_id |-> example.id, target |-> target]
                 /\ t_call' = [call EXCEPT !.created = @ + prepared.created,
                                           !.spawns = @ + 1]
                 /\ t_pc' = "waiting"
                 /\ t_ret' = NoReturn
            ELSE /\ child' = child
                 /\ Finish([call EXCEPT !.created = @ + prepared.created],
                           PreparationFailed(example, target, prepared))

\* RustExampleTester::with_toolchain_manager(config, manager), the manager having
\* found the targets of `installed` installed
NewTester(config, installed) ==
    /\ OnlyTester
    /\ ~tester.alive
    /\ tester' = [alive |-> TRUE, config |-> config, installed |-> installed,
                  temp_dir |-> None, made |-> {}, last_drop |-> NoDrop]
    /\ UNCHANGED <<disk, t_pc, t_call, child, t_ret>>

\* Drop for RustExampleTester
DropTester ==
    /\ OnlyTester
    /\ tester.alive /\ t_pc = "idle"
    /\ disk' = IF tester.temp_dir # None
               THEN RemoveDirAll(disk, Unwrap(tester.temp_dir)) ELSE disk
    /\ tester' = [NoTester EXCEPT
                     !.last_drop = [valid |-> TRUE, made |-> tester.made,
                                    removed |-> disk \ disk',
                                    remaining |-> tester.made \cap disk']]
    /\ t_ret' = NoReturn
    /\ UNCHANGED <<t_pc, t_call, child>>

\* work_dir of TestConfig::default() and TestConfig::embedded() is the fixed path
\* temp_dir()/rust_example_tests: another process, or a user, has put a file there
OtherProcessWrites ==
    /\ OnlyTester
    /\ disk' = disk \cup {TestConfigDefault.work_dir,
                          PathJoin(TestConfigDefault.work_dir, "notes.txt")}
    /\ disk' # disk
    /\ UNCHANGED <<tester, t_pc, t_call, child, t_ret>>

NewCall(api, examples, queue) ==
    [NoTesterCall EXCEPT !.api = api, !.examples = examples, !.queue = queue]

\* test_example(example) is called
TestExample(example) ==
    /\ OnlyTester
    /\ tester.alive /\ t_pc = "idle"
    /\ t_call' = NewCall("test_example", <<example>>,
                         <<Item("test_example", example, "")>>)
    /\ t_pc' = "next"
    /\ t_ret' = NoReturn
    /\ UNCHANGED <<tester, disk, child>>

\* test_example_with_target(example, target) is called
TestExampleWithTarget(example, target) ==
    /\ OnlyTester
    /\ tester.alive /\ t_pc = "idle"
    /\ t_call' = NewCall("test_example_with_target", <<example>>,
                         <<Item("test_example_with_target", example, target)>>)
    /\ t_pc' = "next"
    /\ t_ret' = NoReturn
    /\ UNCHANGED <<tester, disk, child>>

\* the test_example_with_target calls of test_example_all_targets
RECURSIVE TargetItems(_, _)
TargetItems(example, targets) ==
    IF Len(targets) = 0 THEN <<>>
    ELSE <<Item("test_example_with_target", example, targets[1])>>
         \o TargetItems(example, Tail(targets))

\* test_example_all_targets(example) is called: up to its loop over the targets
TestExampleAllTargets(example) ==
    /\ OnlyTester
    /\ tester.alive /\ t_pc = "idle"
    /\ UNCHANGED <<tester, disk, child>>
    /\ LET call == NewCall("test_example_all_targets", <<example>>, <<>>) IN
       IF ~should_compile(example.context)
       THEN Return([call EXCEPT !.results = <<SkippedResult(example)>>])
       ELSE \E available \in get_available_targets(tester.installed, tester.config) :
               IF Len(available) = 0
               THEN Return([call EXCEPT !.lookups = 1,
                                        !.results = <<NoTargetResult(example)>>])
               ELSE /\ t_call' = [call EXCEPT
                                     !.lookups = 1,
                                     !.queue = TargetItems(example, available)]
                    /\ t_pc' = "next"
                    /\ t_ret' = NoReturn

\* the test_example calls of validate_examples
ExampleItems(examples) ==
    [i \in 1..Len(examples) |-> Item("test_example", examples[i], "")]

\* validate_examples(examples) is called
ValidateExamples(examples) ==
    /\ OnlyTester
    /\ tester.alive /\ t_pc = "idle"
    /\ UNCHANGED <<tester, disk, child>>
    /\ LET call == NewCall("validate_examples", examples, ExampleItems(examples)) IN
       IF Len(examples) = 0
       THEN Return(call)
       ELSE /\ t_call' = call
            /\ t_pc' = "next"
            /\ t_ret' = NoReturn

\* the next test_example or test_example_with_target call of the running call, up to
\* its result or to the spawn of the compiler
StartItem(io) ==
    /\ OnlyTester
    /\ t_pc = "next"
    /\ LET item == Head(t_call.queue)
           example == item.example
       IN  IF item.via = "test_example_with_target"
           THEN WithTarget(t_call, example, item.target, io)
           ELSE IF ~should_compile(example.context)
           THEN /\ io = "ok"
                /\ Finish(t_call, SkippedResult(example))
                /\ UNCHANGED <<tester, disk, child>>
           ELSE \E available \in get_available_targets(tester.installed,
                                                       tester.config) :
                   LET looked == [t_call EXCEPT !.lookups = @ + 1] IN
                   IF Len(available) = 0
                   THEN /\ io = "ok"
                        /\ Finish(looked, NoTargetResult(example))
                        /\ UNCHANGED <<tester, disk, child>>
                   ELSE WithTarget(looked, example, available[1], io)

\* time passes while the tester waits in wait_with_output
Tick ==
    /\ OnlyTester
    /\ child.running
    /\ child.elapsed + TickSecs <= MaxElapsed
    /\ child' = [child EXCEPT !.elapsed = @ + TickSecs]
    /\ UNCHANGED <<tester, disk, t_pc, t_call, t_ret>>

\* what wait_with_output can return: an exit status with the compiler's stderr, or
\* an error of the wait itself
ChildOutputs ==
    {[wait |-> "ok", code |-> Some(0), stdout |-> "", stderr |-> ""],
     [wait |-> "ok", code |-> Some(0), stdout |-> "",
      stderr |-> "warning: unused variable: 'x'\n --> src/main.rs:1:5\n"],
     [wait |-> "ok", code |-> Some(101), stdout |-> "",
      stderr |-> "error[E0425]: cannot find value 'y'\n --> src/main.rs:3:9\n"],
     [wait |-> "ok", code |-> None, stdout |-> "",
      stderr |-> "error: linker 'cc' not found\n"],
     [wait |-> "failed", code |-> None, stdout |-> "", stderr |-> ""]}

\* run_with_timeout after the spawn, and the rest of compile_example and of
\* test_example_with_target: the result for what wait_with_output returned after
\* `elapsed` seconds
CompilationResult(example_id, target, output, elapsed, timeout) ==
    IF output.wait = "failed"
    THEN TestResultFailure(example_id, target, elapsed, IoFailure("wait"), "")
    ELSE IF elapsed > timeout
    THEN TestResultFailure(example_id, target, elapsed, TimeoutError(timeout), "")
    ELSE IF output.code = Some(0)
    THEN TestResult(example_id, TRUE, elapsed, target, None,
                    extract_warnings(output.stderr), output.stdout, output.stderr)
    ELSE TestResultFailure(example_id, target, elapsed,
                           parse_compilation_error(output.stderr, output.code), "")

\* the compiler exits and wait_with_output returns
ChildExit(output) ==
    /\ OnlyTester
    /\ t_pc = "waiting" /\ child.running
    /\ child' = NoChild
    /\ Finish(t_call, CompilationResult(child.example_id, child.target, output,
                                        child.elapsed,
                                        tester.config.compilation_timeout))
    /\ UNCHANGED <<tester, disk>>

\* the examples, configurations and installed targets of the model
TesterExamples ==
    {Example("doc_1", "doc.md", "fn main() { println!(\"hi\"); }", CtxStd(<<>>)),
     Example("doc_2", "doc.md", "let x = 5;", CtxSnippet("incomplete code")),
     Example("doc_3", "doc.md", "#![no_std]\nuse cortex_m::asm;",
             CtxNoStd("thumbv7em-none-eabihf", <<>>))}

TesterConfigs == {TestConfigDefault, TestConfigEmbedded}

InstalledTargets ==
    {{"x86_64-unknown-linux-gnu"},
     {"x86_64-unknown-linux-gnu", "thumbv7em-none-eabihf", "thumbv6m-none-eabi"}}

TesterTargets == {"x86_64-unknown-linux-gnu", "thumbv7em-none-eabihf"}

\* the lists of at most n examples
ExampleLists(n) == UNION {[1..k -> TesterExamples] : k \in 0..n}

-----------------------------------------------------------------------------
(* The command line tool, src/src/bin/rust_example_tester.rs: the result     *)
(* cache.                                                                    *)

\* Display for CompilationError
Display(error) ==
    CASE error.kind = "SyntaxError" ->
            "Syntax error"
            \o (IF error.line = None THEN ""
                ELSE " at line " \o NatToStr(Unwrap(error.line))
                     \o (IF error.column = None THEN ""
                         ELSE ", column " \o NatToStr(Unwrap(error.column))))
            \o ": " \o error.message
      [] error.kind = "DependencyError" ->
            "Missing dependencies: " \o Join(error.missing, ", ")
      [] error.kind = "FeatureError" ->
            "Unsupported features: " \o Join(error.unsupported, ", ")
      [] error.kind = "TargetError" ->
            "Target '" \o error.incompatible_target \o "' incompatible: "
            \o error.reason
      [] error.kind = "TimeoutError" ->
            "Compilation timeout after " \o DebugDuration(error.duration)
      [] error.kind = "CompilationFailed" ->
            "Compilation failed (exit code " \o IntToStr(error.exit_code) \o "): "
            \o error.message
      [] error.kind = "IoError" -> "IO error: " \o error.message

\* CachedTestResult::from(&TestResult)
CachedTestResultFrom(result) ==
    [example_id |-> result.example_id,
     success |-> result.success,
     compilation_time_ms |-> result.compilation_time * 1000,
     target |-> result.target,
     error |-> IF result.error = None THEN None
               ELSE Some(Display(Unwrap(result.error))),
     warnings_count |-> Len(result.warnings)]

\* the TestResult rebuilt from a cached one: the error becomes CompilationFailed
\* with exit code -1, the warnings and the output are lost
cached_result_to_test_result(cached) ==
    TestResult(cached.example_id, cached.success,
               cached.compilation_time_ms \div 1000, cached.target,
               IF cached.error = None THEN None
               ELSE Some(CompilationFailed(-1, Unwrap(cached.error))),
               <<>>, "",
               IF cached.error = None THEN "" ELSE Unwrap(cached.error))

\* the input: one markdown file with two examples, and the texts an example can have
CliSourceFile == "doc.md"
CliIds == <<"doc_1", "doc_2">>
CliCodes ==
    [doc_1 |-> {"fn main() {}", "fn main() { let x: u32 = y; }"},
     doc_2 |-> {"fn main() { println!(\"hi\"); }", "fn main() { loop {} }"}]

\* format!("{:x}", n)
RECURSIVE ToHex(_)
ToHex(n) ==
    IF n < 16 THEN SubSeq("0123456789abcdef", n + 1, n + 1)
    ELSE ToHex(n \div 16) \o SubSeq("0123456789abcdef", (n % 16) + 1, (n % 16) + 1)

\* the hasher's state after the characters of s.  DefaultHasher is SipHash with a
\* 64-bit state; here the state has HashBits bits and is mixed by a polynomial.
\* Like the original it is a function of the text alone and it is not injective.
RECURSIVE HashOf(_)
HashOf(s) ==
    IF Len(s) = 0 THEN 5381
    ELSE (HashOf(SubSeq(s, 1, Len(s) - 1)) * 33 + Rank(CharAt(s, Len(s))))
         % (2 ^ HashBits)

\* the hashes of the texts of the input, computed once
ContentHashes == [code \in CliCodes.doc_1 \cup CliCodes.doc_2 |-> ToHex(HashOf(code))]

calculate_content_hash(content) ==
    IF content \in DOMAIN ContentHashes THEN ContentHashes[content]
    ELSE ToHex(HashOf(content))

\* format!("{}:{}", example.source_file.display(), example.id)
cache_key(example) == example.source_file \o ":" \o example.id

CacheEntry(content_hash, modified_time, result) ==
    [content_hash |-> content_hash, modified_time |-> modified_time,
     result |-> result]

\* a HashMap is the set of its (key, value) pairs
\* HashMap::get
MapGet(map, key) == {e.value : e \in {x \in map : x.key = key}}

\* HashMap::insert
MapInsert(map, key, value) ==
    {x \in map : x.key # key} \cup {[key |-> key, value |-> value]}

\* filter_changed_examples: whether one example needs testing, current_time being
\* the modification time of its source file
needs_testing(cache, example, current_time) ==
    LET cached == MapGet(cache, cache_key(example)) IN
    IF cached # None
    THEN \/ Unwrap(cached).content_hash # calculate_content_hash(example.code)
         \/ Unwrap(cached).modified_time < current_time
    ELSE TRUE

RECURSIVE filter_changed_examples(_, _, _)
filter_changed_examples(examples, cache, current_time) ==
    IF Len(examples) = 0 THEN <<>>
    ELSE (IF needs_testing(cache, examples[1], current_time)
          THEN <<examples[1]>> ELSE <<>>)
         \o filter_changed_examples(Tail(examples), cache, current_time)

\* filter_changed_examples reads the modification time only for examples that have
\* an entry
FilterReadsTime(examples, cache) ==
    \E i \in 1..Len(examples) : MapGet(cache, cache_key(examples[i])) # None

\* a cache that never returns a result
no_cached_result(cache, example) == None

get_cached_result(cache, example) ==
    LET entry == MapGet(cache, cache_key(example)) IN
    IF entry = None THEN None ELSE Some(Unwrap(entry).result)

\* update_cache, modified_time being what get_file_modified_time returned
update_cache(cache, example, result, modified_time) ==
    MapInsert(cache, cache_key(example),
              CacheEntry(calculate_content_hash(example.code), modified_time,
                         CachedTestResultFrom(result)))

\* the options of a run that matter to the cache
CliConfigs ==
    [use_cache : BOOLEAN, incremental : BOOLEAN, fail_fast : BOOLEAN,
     example_id : {None}]

\* CodeExtractor::extract_from_file and the retain of the example given by
\* --example: the examples of the file as it is now
RECURSIVE ExtractedFrom(_, _, _)
ExtractedFrom(file, ids, example_id) ==
    IF Len(ids) = 0 THEN <<>>
    ELSE (IF example_id = None \/ example_id = Some(ids[1])
          THEN <<Example(ids[1], CliSourceFile, file.code[ids[1]], CtxStd(<<>>))>>
          ELSE <<>>)
         \o ExtractedFrom(file, Tail(ids), example_id)

\* get_file_modified_time: the time in seconds, or None for an Err when the
\* metadata of the file cannot be read
get_file_modified_time(file, readable) ==
    IF readable THEN Some(file.modified) ELSE None

\* what the compiler can print for an example of the tool
CliOutputs ==
    {[wait |-> "ok", code |-> Some(0), stdout |-> "", stderr |-> ""],
     [wait |-> "ok", code |-> Some(101), stdout |-> "",
      stderr |-> "error[E0425]: cannot find value 'y'\n --> src/main.rs:1:27\n"]}

\* test_example_with_target for each output of the compiler after a second,
\* computed once
CliCompilations ==
    [output \in CliOutputs |->
        CompilationResult("", "x86_64-unknown-linux-gnu", output, 1,
                          DefaultTimeoutSecs)]

\* tester.test_example(example) for a compiler that prints `output`
CliTestExample(example, output) ==
    IF ~should_compile(example.context) THEN SkippedResult(example)
    ELSE [CliCompilations[output] EXCEPT !.example_id = example.id]

NoRun == [pc |-> "idle"]

NoCliReturn == [valid |-> FALSE]

\* where a result of the report came from: read from the cache or compiled in this
\* run, and, for a cached one, whether the entry's content hash or modification
\* time differed from the example's when it was read
Provenance(example, cached, entry, file) ==
    [key |-> cache_key(example),
     cached |-> cached,
     stale |-> /\ cached
               /\ \/ entry.content_hash # calculate_content_hash(example.code)
                  \/ entry.modified_time # file.modified]

\* the keys of a list of examples
KeysOf(examples) == {cache_key(examples[i]) : i \in 1..Len(examples)}

\* the loop over all_examples after the cache is saved, in incremental mode
RECURSIVE AddCachedResults(_, _)
AddCachedResults(run, examples) ==
    IF Len(examples) = 0 THEN run
    ELSE LET example == examples[1]
             tested == \E i \in 1..Len(run.examples_to_test) :
                           run.examples_to_test[i].id = example.id
             cached_result == get_cached_result(run.cache, example)
         IN  AddCachedResults(
                IF ~tested /\ cached_result # None
                THEN [run EXCEPT
                        !.report = add_result(@, cached_result_to_test_result(
                                                     Unwrap(cached_result))),
                        !.provenance = Append(@, Provenance(example, TRUE,
                                           Unwrap(MapGet(run.cache, cache_key(example))),
                                           input_file))]
                ELSE run,
                Tail(examples))

\* run_with_config returns Err(message): main prints it and exits with 1
CliErr(run, message) ==
    /\ cli_ret' = [valid |-> TRUE, status |-> "err", message |-> message,
                   exit_code |-> 1, config |-> run.config,
                   all_examples |-> run.all_examples, report |-> NewReport,
                   provenance |-> <<>>, failed_fast |-> FALSE,
                   compiled |-> run.compiled, unchanged |-> unchanged]
    /\ cli' = NoRun
    /\ cache_json' = cache_json
    /\ unchanged' = {}
    /\ run_count' = run_count + 1

\* run_with_config after its loop: the cache is saved, the cached results of the
\* examples that were not tested are added, and the process exits
CliFinish(run) ==
    LET final == IF run.config.incremental
                 THEN AddCachedResults(run, run.all_examples) ELSE run
    IN  /\ cache_json' = IF run.config.use_cache THEN run.cache ELSE cache_json
        /\ cli_ret' = [valid |-> TRUE, status |-> "ok", message |-> "",
                       exit_code |-> IF final.report.failed > 0 \/ final.failed_fast
                                     THEN 1 ELSE 0,
                       config |-> run.config, all_examples |-> run.all_examples,
                       report |-> final.report, provenance |-> final.provenance,
                       failed_fast |-> final.failed_fast,
                       compiled |-> final.compiled, unchanged |-> unchanged]
        /\ cli' = NoRun
        /\ unchanged' = IF run.config.use_cache /\ ~final.failed_fast
                        THEN KeysOf(run.all_examples) ELSE {}
        /\ run_count' = run_count + 1

\* after an iteration of the loop: the next one, or the end of the run
CliContinue(run) ==
    IF Len(run.queue) = 0 \/ run.failed_fast
    THEN CliFinish(run)
    ELSE /\ cli' = run
         /\ cli_ret' = NoCliReturn
         /\ UNCHANGED <<cache_json, unchanged, run_count>>

\* run_with_config up to its loop: the examples are extracted, the cache is loaded
\* and, in incremental mode, the changed examples are selected.  readable says
\* whether filter_changed_examples can read the metadata of the file.
RunWithConfig(config, readable) ==
    /\ OnlyCli
    /\ cli.pc = "idle"
    /\ run_count < MaxRuns
    /\ input_file' = input_file
    /\ LET current_time == get_file_modified_time(input_file, readable)
           all_examples == ExtractedFrom(input_file, CliIds, config.example_id)
           cache == IF config.use_cache THEN cache_json ELSE {}
           reads_time == config.incremental /\ FilterReadsTime(all_examples, cache)
           run == [pc |-> "loop", config |-> config, all_examples |-> all_examples,
                   examples_to_test |-> <<>>, queue |-> <<>>, cache |-> cache,
                   report |-> NewReport, provenance |-> <<>>,
                   failed_fast |-> FALSE, compiled |-> {}]
       IN  /\ current_time = None => reads_time
           /\ IF Len(all_examples) = 0
              THEN CliErr(run, "No code examples found to test")
              ELSE IF reads_time /\ current_time = None
              THEN CliErr(run, "Failed to get file metadata")
              ELSE LET examples_to_test ==
                           IF config.incremental
                           THEN filter_changed_examples(all_examples, cache,
                                    IF reads_time THEN Unwrap(current_time) ELSE 0)
                           ELSE all_examples
                   IN  CliContinue([run EXCEPT
                                       !.examples_to_test = examples_to_test,
                                       !.queue = examples_to_test])

\* one iteration of the loop over examples_to_test.  output is what the compiler
\* prints if it is run, readable whether update_cache can read the metadata of the
\* file.
RunLoopStep(output, readable) ==
    /\ OnlyCli
    /\ cli.pc = "loop"
    /\ input_file' = input_file
    /\ LET modified_time == get_file_modified_time(input_file, readable)
           example == Head(cli.queue)
           rest == [cli EXCEPT !.queue = Tail(@)]
           cached_result == IF cli.config.use_cache
                            THEN get_cached_result(cli.cache, example) ELSE None
       IN  IF cached_result # None
           THEN /\ output = CHOOSE o \in CliOutputs : o.code = Some(0)
                /\ modified_time # None
                /\ CliContinue([rest EXCEPT
                      !.report = add_result(@, cached_result_to_test_result(
                                                   Unwrap(cached_result))),
                      !.provenance = Append(@, Provenance(example, TRUE,
                                         Unwrap(MapGet(cli.cache, cache_key(example))),
                                         input_file))])
           ELSE LET result == CliTestExample(example, output)
                    tested == [rest EXCEPT
                                 !.compiled = IF should_compile(example.context)
                                              THEN @ \cup {cache_key(example)}
                                              ELSE @]
                IN  /\ modified_time = None => cli.config.use_cache
                    /\ IF cli.config.use_cache /\ modified_time = None
                       THEN CliErr(tested, "Failed to get file metadata")
                       ELSE CliContinue([tested EXCEPT
                              !.cache = IF cli.config.use_cache
                                        THEN update_cache(@, example, result,
                                                          Unwrap(modified_time))
                                        ELSE @,
                              !.failed_fast = cli.config.fail_fast /\ ~result.success,
                              !.report = add_result(@, result),
                              !.provenance = Append(@, Provenance(example, FALSE,
                                                 CacheEntry("", 0, <<>>),
                                                 input_file))])

\* the input file is written again with the same text: its time changes
Touch(time) ==
    /\ OnlyCli
    /\ run_count < MaxRuns
    /\ time # input_file.modified
    /\ input_file' = [input_file EXCEPT !.modified = time]
    /\ unchanged' = {}
    /\ UNCHANGED <<cache_json, cli, cli_ret, run_count>>

\* the text of one example is edited between two runs; the file's time in seconds
\* may stay the same
Edit(id, code, time) ==
    /\ OnlyCli
    /\ cli.pc = "idle" /\ run_count < MaxRuns
    /\ code # input_file.code[id]
    /\ input_file' = [input_file EXCEPT !.code[id] = code, !.modified = time]
    /\ unchanged' = IF time # input_file.modified THEN {}
                    ELSE unchanged \ {CliSourceFile \o ":" \o id}
    /\ UNCHANGED <<cache_json, cli, cli_ret, run_count>>

-----------------------------------------------------------------------------
(* DependencyResolver::generate_cargo_toml, src/src/dependency_resolver.rs *)

\* .map(|f| format!("\"{}\"", f))
Quoted(features) == [i \in 1..Len(features) |-> "\"" \o features[i] \o "\""]

\* Dependency::to_toml_value
to_toml_value(dep) ==
    IF /\ Len(dep.features) = 0 /\ dep.default_features
       /\ ~dep.optional /\ dep.target = None
    THEN "\"" \o dep.version \o "\""
    ELSE LET parts ==
                 <<"version = \"" \o dep.version \o "\"">>
                 \o (IF ~dep.default_features
                     THEN <<"default-features = false">> ELSE <<>>)
                 \o (IF Len(dep.features) > 0
                     THEN <<"features = [" \o Join(Quoted(dep.features), ", ") \o "]">>
                     ELSE <<>>)
                 \o (IF dep.optional THEN <<"optional = true">> ELSE <<>>)
         IN  "{ " \o Join(parts, ", ") \o " }"

\* the dependencies of the examples that compile, in the order of the two loops
RECURSIVE CollectedDependencies(_)
CollectedDependencies(examples) ==
    IF Len(examples) = 0 THEN <<>>
    ELSE (IF should_compile(examples[1].context)
          THEN resolve_dependencies(examples[1]) ELSE <<>>)
         \o CollectedDependencies(Tail(examples))

\* all_dependencies: name -> dependency, of the dependencies without a target; a
\* later insert replaces an earlier one
RECURSIVE InsertAll(_, _)
InsertAll(map, deps) ==
    IF Len(deps) = 0 THEN map
    ELSE InsertAll(IF deps[1].target = None
                   THEN MapInsert(map, deps[1].name, deps[1]) ELSE map,
                   Tail(deps))

\* target_dependencies[target]: name -> dependency, of the dependencies for target
RECURSIVE InsertForTarget(_, _, _)
InsertForTarget(map, deps, target) ==
    IF Len(deps) = 0 THEN map
    ELSE InsertForTarget(IF deps[1].target = Some(target)
                         THEN MapInsert(map, deps[1].name, deps[1]) ELSE map,
                         Tail(deps), target)

\* the keys of target_dependencies
DependencyTargets(deps) ==
    UNION {deps[i].target : i \in 1..Len(deps)}

\* sorted_deps.sort_by(name) and one line "name = value" for each
RECURSIVE DependencyLinesOf(_, _)
DependencyLinesOf(map, names) ==
    IF Len(names) = 0 THEN ""
    ELSE names[1] \o " = " \o to_toml_value(Unwrap(MapGet(map, names[1]))) \o "\n"
         \o DependencyLinesOf(map, Tail(names))

\* the elements of a finite set of strings as a sequence in some order
RECURSIVE SeqOfSet(_)
SeqOfSet(set) ==
    IF set = {} THEN <<>>
    ELSE LET x == CHOOSE y \in set : TRUE IN <<x>> \o SeqOfSet(set \ {x})

DependencyLines(map) ==
    DependencyLinesOf(map, SortStrings(SeqOfSet({e.key : e \in map})))

\* the orders in which a HashMap with these keys can be iterated
IterationOrders(keys) ==
    {order \in [1..Cardinality(keys) -> keys] :
        \A i, j \in 1..Cardinality(keys) : order[i] = order[j] => i = j}

\* for (target, deps) in target_dependencies, iterated in `order`
RECURSIVE TargetSections(_, _)
TargetSections(deps, order) ==
    IF Len(order) = 0 THEN ""
    ELSE "[target.'cfg(target = \"" \o order[1] \o "\")'.dependencies]\n"
         \o DependencyLines(InsertForTarget({}, deps, order[1])) \o "\n"
         \o TargetSections(deps, Tail(order))

\* generate_cargo_toml: the texts it can return
generate_cargo_toml(examples, package_name) ==
    LET deps == CollectedDependencies(examples)
        all_dependencies == InsertAll({}, deps)
        is_no_std_project == \E i \in 1..Len(examples) : is_no_std(examples[i].context)
        package == "[package]\nname = \"" \o package_name
                   \o "\"\nversion = \"0.1.0\"\nedition = \"2021\"\n\n"
        lib == IF is_no_std_project
               THEN "[lib]\nname = \"lib\"\ncrate-type = [\"staticlib\"]\n\n" ELSE ""
        dependencies == IF all_dependencies # {}
                        THEN "[dependencies]\n" \o DependencyLines(all_dependencies)
                             \o "\n"
                        ELSE ""
        profile == IF is_no_std_project
                   THEN "[profile.dev]\ndebug = true\nopt-level = 0\n\n"
                        \o "[profile.release]\ndebug = true\nopt-level = \"s\"\n"
                        \o "lto = true\ncodegen-units = 1\n\n"
                   ELSE ""
    IN  {package \o lib \o dependencies \o TargetSections(deps, order) \o profile :
            order \in IterationOrders(DependencyTargets(deps))}

\* the examples given to generate_cargo_toml
ManifestExamples ==
    {Example("doc_1", "doc.md", "use serde_json::Value;\nuse zeroize::Zeroize;",
             CtxStd(<<"serde">>)),
     Example("doc_2", "doc.md", "#![no_std]\nuse heapless::Vec;\nuse foo::bar;",
             CtxNoStd("thumbv7em-none-eabihf", <<>>)),
     Example("doc_3", "doc.md", "#![no_std]\nuse cortex_m::asm;\nuse heapless::Vec;",
             CtxNoStd("thumbv6m-none-eabi", <<>>)),
     Example("doc_4", "doc.md", "let x = 5;", CtxSnippet("incomplete code"))}

ManifestLists == UNION {[1..k -> ManifestExamples] : k \in 0..MaxManifestExamples}

NoManifest == [valid |-> FALSE]

\* one call of generate_cargo_toml; the call before it is kept for comparison
GenerateCargoToml(examples, package_name) ==
    /\ OnlyResolver
    /\ resolved' = resolved
    /\ \E text \in generate_cargo_toml(examples, package_name) :
          manifest' = [valid |-> TRUE, examples |-> examples,
                       package_name |-> package_name, text |-> text,
                       previous |-> IF manifest.valid
                                    THEN [valid |-> TRUE,
                                          examples |-> manifest.examples,
                                          package_name |-> manifest.package_name,
                                          text |-> manifest.text]
                                    ELSE NoManifest]

-----------------------------------------------------------------------------
(* CodeExtractor::parse_annotations, src/src/code_extractor.rs: the text     *)
(* after "```rust," is read character by character.                          *)

\* the locals of parse_annotations before the first character
ParserStart ==
    [annotations |-> <<>>, current_key |-> "", current_value |-> "",
     in_value |-> FALSE, in_quotes |-> FALSE]

\* a comma ends an annotation also between double quotes
EndsAnnotationAtEveryComma(ch, in_quotes) == ch = ","

\* the guard of the arm that ends an annotation
EndsAnnotation(ch, in_quotes) == ch = "," /\ ~in_quotes

\* the end of an annotation: a key with a value, a key alone, or nothing
InsertAnnotation(st) ==
    LET key == Trim(st.current_key) IN
    IF key = "" THEN st.annotations
    ELSE IF st.in_value /\ st.current_value # ""
    THEN (key :> Some(Trim(st.current_value))) @@ st.annotations
    ELSE IF ~st.in_value THEN (key :> None) @@ st.annotations
    ELSE st.annotations

\* the match on one character
ParseChar(st, ch) ==
    IF ch = "=" /\ ~st.in_quotes
    THEN IF st.current_key # ""
         THEN [st EXCEPT !.in_value = TRUE, !.current_value = ""]
         ELSE st
    ELSE IF ch = "\""
    THEN [st EXCEPT !.in_quotes = ~@]
    ELSE IF EndsAnnotation(ch, st.in_quotes)
    THEN [st EXCEPT !.annotations = InsertAnnotation(st), !.current_key = "",
                    !.current_value = "", !.in_value = FALSE]
    ELSE IF st.in_value
    THEN [st EXCEPT !.current_value = @ \o ch]
    ELSE [st EXCEPT !.current_key = @ \o ch]

\* while let Some(ch) = chars.next(): the characters first..last in order, the
\* first half of them before the second (the locals after the first half are
\* computed before the second half is entered)
RECURSIVE ParseChars(_, _, _, _)
ParseChars(s, first, last, st) ==
    IF first > last THEN st
    ELSE IF first = last THEN ParseChar(st, CharAt(s, first))
    ELSE LET middle == (first + last) \div 2
             before == ParseChars(s, first, middle, st)
         IN  IF before.in_quotes \in BOOLEAN
             THEN ParseChars(s, middle + 1, last, before)
             ELSE before

parse_annotations(annotations_str) ==
    IF annotations_str = "" THEN <<>>
    ELSE InsertAnnotation(ParseChars(annotations_str, 1, Len(annotations_str),
                                     ParserStart))

\* the annotations a fence line can carry, and the texts of up to
\* MaxAnnotations of them
AnnotationItems ==
    {"no_std", "snippet", " crypto ", "target=thumbv6m-none-eabi",
     "hardware=STM32F4", "features=\"crypto,hardware\"", "features = crypto",
     "snippet=\"incomplete, see below\"", "cfg=feature=std", "target=", ""}

AnnotationStrings ==
    {Join(items, ",") : items \in UNION {[1..n -> AnnotationItems] : n \in 1..MaxAnnotations}}

\* what parse_annotations returns for each of these texts
ParsedAnnotations ==
    Tabulated([annotations_str \in AnnotationStrings |->
                  parse_annotations(annotations_str)])

\* extractor.parse_annotations(annotations_str)
ParseAnnotations(annotations_str) ==
    /\ OnlyParser
    /\ parsed' = [valid |-> TRUE, annotations_str |-> annotations_str,
                  annotations |-> ParsedAnnotations[annotations_str]]
    /\ extracted' = extracted

-----------------------------------------------------------------------------
(* CodeExtractor::extract_from_content, src/src/code_extractor.rs.  A string *)
(* of the model cannot hold the grave accent, so a fence is written with     *)
(* three apostrophes: the line '''rust stands for the opener of a rust       *)
(* block and the line ''' for a closer.                                      *)

\* Path::file_stem as a string: the file name without its last extension
FileStem(path) ==
    LET slashes == {i \in 1..Len(path) : CharAt(path, i) = "/"}
        name == SubSeq(path, NthPosition(slashes, Cardinality(slashes), 0) + 1, Len(path))
        dots == {i \in 2..Len(name) : CharAt(name, i) = "."}
    IN  IF dots = {} THEN name
        ELSE SubSeq(name, 1, NthPosition(dots, Cardinality(dots), 0) - 1)

\* CodeExample::new and the assignment of example.annotations (the inferred
\* dependencies are left out)
ExtractedExample(id, source_file, line_number, code, context, annotations) ==
    [id |-> id, source_file |-> source_file, line_number |-> line_number,
     code |-> code, context |-> context, annotations |-> annotations]

\* the text after "'''rust," on the opener, or nothing
AnnotationsStr(line) ==
    IF Len(line) > 7 /\ CharAt(line, 8) = "," THEN SubSeq(line, 9, Len(line)) ELSE ""

\* the last line of the content closes a block that has no closing fence
ClosingFenceOrLastLine(lines, i) ==
    LET fences == {j \in (i + 1)..Len(lines) : StartsWith(lines[j], "'''")} IN
    IF fences = {} THEN Len(lines)
    ELSE CHOOSE j \in fences : \A k \in fences : j <= k

\* the inner loop: the first line after line i that starts with a fence, or
\* Len(lines) + 1 when there is none (lines are counted from 1)
ClosingFence(lines, i) ==
    LET fences == {j \in (i + 1)..Len(lines) : StartsWith(lines[j], "'''")} IN
    IF fences = {} THEN Len(lines) + 1
    ELSE CHOOSE j \in fences : \A k \in fences : j <= k

\* the example of the block that opens on line i and is closed on line j
BlockExample(lines, i, j, example_counter, source_file) ==
    LET code == Join(SubSeq(lines, i + 1, j - 1), "\n")
        annotations == parse_annotations(AnnotationsStr(lines[i]))
    IN  ExtractedExample(FileStem(source_file) \o "_" \o NatToStr(example_counter),
                         source_file, i, code, infer_context(annotations, code),
                         annotations)

\* the loop over the lines, from line i on
RECURSIVE ScanLines(_, _, _, _, _)
ScanLines(lines, i, example_counter, examples, source_file) ==
    IF i > Len(lines) THEN examples
    ELSE IF StartsWith(lines[i], "'''rust")
    THEN LET j == ClosingFence(lines, i) IN
         IF j <= Len(lines)
         THEN ScanLines(lines, j + 1, example_counter + 1,
                        Append(examples, BlockExample(lines, i, j, example_counter + 1,
                                                      source_file)),
                        source_file)
         ELSE ScanLines(lines, i + 1, example_counter + 1, examples, source_file)
    ELSE ScanLines(lines, i + 1, example_counter, examples, source_file)

\* extract_from_content returns Ok(examples) on every path
extract_from_content(content, source_file) ==
    [ok |-> TRUE, examples |-> ScanLines(Lines(content), 1, 0, <<>>, source_file)]

\* the parts documents are made of: prose, closed rust blocks, a closed block of
\* another language, and a rust block that is never closed
Segment(kind, lines) == [kind |-> kind, lines |-> lines]

DocumentSegments ==
    {Segment("prose", <<"# Test Document", "">>),
     Segment("prose", <<"Here is a simple example:">>),
     Segment("rust", <<"'''rust", "fn main() {", "    println!(\"Hello\");", "}", "'''">>),
     Segment("rust", <<"'''rust,no_std", "#![no_std]", "use heapless::Vec;", "'''">>),
     Segment("rust", <<"'''rust,snippet=\"a, b\"", "'''">>),
     Segment("other", <<"'''toml", "[dependencies]", "'''">>),
     Segment("unclosed", <<"'''rust", "let x = 5;">>)}

\* the documents of at most MaxSegments parts in which an unclosed block, if there
\* is one, comes last
Documents ==
    {segments \in UNION {[1..n -> DocumentSegments] : n \in 0..MaxSegments} :
        \A k \in 1..(Len(segments) - 1) : segments[k].kind # "unclosed"}

RECURSIVE SegmentLines(_)
SegmentLines(segments) ==
    IF Len(segments) = 0 THEN <<>>
    ELSE segments[1].lines \o SegmentLines(Tail(segments))

\* the text of a document: its lines, each ended by a line feed
ContentOf(segments) ==
    IF Len(segments) = 0 THEN "" ELSE Join(SegmentLines(segments), "\n") \o "\n"

DocumentPath == "docs/test.md"

\* what extract_from_content returns for each document
Extractions ==
    Tabulated([segments \in Documents |->
                  extract_from_content(ContentOf(segments), DocumentPath)])

\* extractor.extract_from_content(content, source_file)
ExtractFromContent(segments) ==
    /\ OnlyParser
    /\ extracted' = [valid |-> TRUE, segments |-> segments,
                     source_file |-> DocumentPath, result |-> Extractions[segments]]
    /\ parsed' = parsed

-----------------------------------------------------------------------------
(* The command line tool on a directory with two markdown files, and its     *)
(* watch mode, src/src/bin/rust_example_tester.rs.  run_with_config is taken *)
(* as a whole here: extraction, cache, selection, loop, saved cache, cached  *)
(* results of the examples not tested, and the exit of the process.          *)

\* collect_input_files: the markdown files below the input directory, sorted
DirFiles == <<"a/doc.md", "b/doc.md">>

DirPaths == {DirFiles[i] : i \in 1..Len(DirFiles)}

\* the texts the one example of a file can have
DirCodes == CliCodes.doc_1

\* what the compiler prints for the first and second example compiled in a run
DirOutputs == [1..2 -> CliOutputs]

\* extract_from_file for each file: one example per file, its id made of the file
\* stem and the counter
DirExamples(files) ==
    [i \in 1..Len(DirFiles) |->
        Example(FileStem(DirFiles[i]) \o "_1", DirFiles[i], files[DirFiles[i]].code,
                CtxStd(<<>>))]

\* the loop over examples_to_test; a failed read of the file metadata in
\* update_cache ends the run with an Err
RECURSIVE RunLoop(_, _, _, _, _)
RunLoop(run, queue, outputs, files, readable) ==
    IF Len(queue) = 0 \/ run.failed_fast \/ run.error # None THEN run
    ELSE LET example == Head(queue)
             cached_result == IF run.config.use_cache
                              THEN get_cached_result(run.cache, example) ELSE None
         IN  IF cached_result # None
             THEN RunLoop([run EXCEPT
                             !.report = add_result(@, cached_result_to_test_result(
                                                          Unwrap(cached_result)))],
                          Tail(queue), outputs, files, readable)
             ELSE LET result == CliTestExample(example, Head(outputs)) IN
                  IF run.config.use_cache /\ ~readable
                  THEN [run EXCEPT !.error = Some("Failed to get file metadata")]
                  ELSE RunLoop([run EXCEPT
                                  !.cache = IF run.config.use_cache
                                            THEN update_cache(@, example, result,
                                                    files[example.source_file].modified)
                                            ELSE @,
                                  !.failed_fast = run.config.fail_fast /\ ~result.success,
                                  !.report = add_result(@, result)],
                               Tail(queue), Tail(outputs), files, readable)

\* what a run leaves: Ok(()) ("ok"), Err(message) ("err"), or process::exit(1)
\* after the report was printed ("exit")
RunOutcome(status, message, run, cache_file) ==
    [valid |-> TRUE, status |-> status, message |-> message,
     config |-> run.config, all_examples |-> run.all_examples,
     examples_to_test |-> run.examples_to_test,
     report |-> run.report, failed_fast |-> run.failed_fast,
     cache_json |-> cache_file]

\* the end of run_with_config: process::exit(1) when an example failed
exit_or_ok(report, failed_fast) ==
    IF report.failed > 0 \/ failed_fast THEN "exit" ELSE "ok"

run_with_config(config, files, cache_file, outputs, readable) ==
    LET all_examples == DirExamples(files)
        cache == IF config.use_cache THEN cache_file ELSE {}
        reads_time == config.incremental /\ FilterReadsTime(all_examples, cache)
        start == [config |-> config, all_examples |-> all_examples,
                  examples_to_test |-> <<>>, cache |-> cache, report |-> NewReport,
                  provenance |-> <<>>, failed_fast |-> FALSE, error |-> None]
    IN  IF reads_time /\ ~readable
        THEN RunOutcome("err", "Failed to get file metadata", start, cache_file)
        ELSE LET examples_to_test ==
                     IF config.incremental
                     THEN SelectSeq(all_examples,
                              LAMBDA e : needs_testing(cache, e,
                                             files[e.source_file].modified))
                     ELSE all_examples
                 looped == RunLoop([start EXCEPT !.examples_to_test = examples_to_test],
                                   examples_to_test, outputs, files, readable)
             IN  IF looped.error # None
                 THEN RunOutcome("err", Unwrap(looped.error),
                                 [looped EXCEPT !.report = NewReport], cache_file)
                 ELSE LET final == IF config.incremental
                                   THEN AddCachedResults(looped, all_examples)
                                   ELSE looped
                      IN  RunOutcome(exit_or_ok(final.report, final.failed_fast), "",
                                     final,
                                     IF config.use_cache THEN looped.cache
                                     ELSE cache_file)

NoOutcome == [valid |-> FALSE]

NoWatch == [pc |-> "off", file_timestamps |-> <<>>, config |-> None]

\* the state after a run of the tool: the cache file and what the run left
AfterRun(outcome) ==
    [directory EXCEPT !.cache_json = outcome.cache_json, !.ret = outcome,
                      !.runs = @ + 1]

\* the tool is run on the directory without --watch
RunDirectory(config, outputs, readable) ==
    /\ OnlyDirectory
    /\ watch.pc = "off"
    /\ directory.runs < MaxRuns
    /\ directory' = AfterRun(run_with_config(config, directory.files,
                                             directory.cache_json, outputs, readable))
    /\ watch' = watch

\* a file of the directory is written: new text, new modification time, or both
EditFile(path, code, time) ==
    /\ OnlyDirectory
    /\ directory.runs < MaxRuns
    /\ [modified |-> time, code |-> code] # directory.files[path]
    /\ directory' = [directory EXCEPT
                        !.files[path] = [modified |-> time, code |-> code]]
    /\ watch' = watch

\* the modification times fs::metadata gives for the files
FileTimes(files, readable) ==
    IF readable THEN [p \in DirPaths |-> files[p].modified] ELSE <<>>

\* run_watch_mode up to its loop: the initial run and the first timestamps.  The
\* run is made in the process itself, so its process::exit ends the watch too.
RunWatchMode(config, outputs, readable) ==
    /\ OnlyDirectory
    /\ watch.pc = "off"
    /\ directory.runs < MaxRuns
    /\ LET outcome == run_with_config(config, directory.files, directory.cache_json,
                                      outputs, readable)
       IN  /\ directory' = AfterRun(outcome)
           /\ watch' = IF outcome.status = "exit"
                       THEN [pc |-> "exited", file_timestamps |-> <<>>,
                             config |-> Some(config)]
                       ELSE [pc |-> "watching",
                             file_timestamps |-> FileTimes(directory.files, readable),
                             config |-> Some(config)]

\* an iteration of the watch loop that finds a new or modified file and runs the
\* tests again (an iteration that finds none changes nothing)
WatchIteration(outputs, readable) ==
    /\ OnlyDirectory
    /\ watch.pc = "watching"
    /\ directory.runs < MaxRuns
    /\ LET now == FileTimes(directory.files, readable)
           seen == watch.file_timestamps
           changed == {p \in DOMAIN now : p \notin DOMAIN seen \/ now[p] > seen[p]}
           outcome == run_with_config(Unwrap(watch.config), directory.files,
                                      directory.cache_json, outputs, readable)
       IN  /\ changed # {}
           /\ directory' = AfterRun(outcome)
           /\ watch' = IF outcome.status = "exit"
                       THEN [watch EXCEPT !.pc = "exited"]
                       ELSE [watch EXCEPT
                               !.file_timestamps =
                                  [p \in DOMAIN seen \cup changed |->
                                      IF p \in changed THEN now[p] ELSE seen[p]]]

InitDirectory ==
    /\ directory = [files |-> [p \in DirPaths |->
                                 [modified |-> 1, code |-> "fn main() {}"]],
                    cache_json |-> {}, ret |-> NoOutcome, runs |-> 0]
    /\ watch = NoWatch

-----------------------------------------------------------------------------
(* Specifications.  Every component starts as its constructor leaves it; a   *)
(* specification runs the operations of one component and leaves the others  *)
(* as they are.                                                              *)

InitRecovery ==
    /\ recovery_cache = <<>>
    /\ rec_call = NoCall
    /\ loop = NoLoop

InitDegradation ==
    /\ degraded_mode = FALSE
    /\ current_failure_rate = <<0, 1>>
    /\ deg_call = NoObservation
    /\ deg_query = NoQuery

InitExtractor == classified = NotClassified

InitResolver ==
    /\ resolved = NotResolved
    /\ manifest = NoManifest

InitParser ==
    /\ parsed = NotParsed
    /\ extracted = NotExtracted

InitToolchain == target_lookup = NoLookup

InitTester ==
    /\ tester = NoTester
    /\ disk = {}
    /\ t_pc = "idle"
    /\ t_call = NoTesterCall
    /\ child = NoChild
    /\ t_ret = NoReturn

\* the file as it was written first, no cache file, no run yet
InitCli ==
    /\ input_file = [modified |-> 1,
                      code |-> [doc_1 |-> "fn main() {}",
                                doc_2 |-> "fn main() { println!(\"hi\"); }"]]
    /\ cache_json = {}
    /\ cli = NoRun
    /\ cli_ret = NoCliReturn
    /\ unchanged = {}
    /\ run_count = 0

InitReport == validation_report = NewReport

Init ==
    /\ InitCli
    /\ InitDirectory
    /\ InitReport
    /\ InitRecovery
    /\ InitDegradation
    /\ InitExtractor
    /\ InitResolver
    /\ InitTester
    /\ InitParser
    /\ InitToolchain

NextRetryLoop ==
    \/ \E error \in RecErrors, example \in RecExamples, config \in RecConfigs :
          RetryLoopStart(error, example, config)
    \/ RetryLoopNext

SpecRetryLoop == Init /\ [][NextRetryLoop]_vars

NextRecovery ==
    \E error \in CallErrors, example \in CallExamples, config \in CallConfigs,
       retry_count \in 0..MaxRetryCount :
        DetermineRecoveryAction(error, example, config, retry_count)

SpecRecovery == Init /\ [][NextRecovery]_vars

NextDegradation ==
    \E successful \in 0..MaxCount, total \in 0..MaxCount :
        UpdateFailureRate(successful, total)

SpecDegradation == Init /\ [][NextDegradation]_vars

NextReport ==
    \/ \E result \in ReportResults : AddResult(result)
    \/ SkipExample("doc_3", "no compatible target")
    \/ MarkAsSnippet_("doc_4", "incomplete code")
    \/ \E recovery_type \in RecoveryTypes : RecordRecovery("doc_2", recovery_type)
    \/ RecordFailedRecovery
    \/ RecordSuccessfulRecovery

SpecReport == Init /\ [][NextReport]_vars

NextDirectory ==
    \/ \E config \in CliConfigs, outputs \in DirOutputs, readable \in BOOLEAN :
          RunDirectory(config, outputs, readable)
    \/ \E path \in DirPaths, code \in DirCodes, time \in 1..MaxMtime :
          EditFile(path, code, time)

SpecDirectory == Init /\ [][NextDirectory]_vars

NextWatch ==
    \/ \E config \in CliConfigs, outputs \in DirOutputs, readable \in BOOLEAN :
          RunWatchMode(config, outputs, readable)
    \/ \E outputs \in DirOutputs, readable \in BOOLEAN :
          WatchIteration(outputs, readable)
    \/ \E path \in DirPaths, code \in DirCodes, time \in 1..MaxMtime :
          EditFile(path, code, time)

SpecWatch == Init /\ [][NextWatch]_vars

\* the manager is told the outcome of runs of MaxCount examples and is asked
\* about examples in between
NextStrategies ==
    \/ \E successful \in 0..MaxCount : UpdateFailureRate(successful, MaxCount)
    \/ \E example \in DegradationExamples : ShouldDegradeExample(example)

SpecStrategies == Init /\ [][NextStrategies]_vars

NextExtractor ==
    \/ \E annotations \in BlockAnnotations : ReadFence(annotations)
    \/ \E code \in BlockCodes : ReadCode(code)
    \/ InferContext

SpecExtractor == Init /\ [][NextExtractor]_vars

NextToolchain ==
    \E targets \in LookupTargets, no_std \in BOOLEAN, embedded_mode \in BOOLEAN,
       installed \in LookupInstalled :
        GetAvailableTargets(targets, no_std, embedded_mode, installed)

SpecToolchain == Init /\ [][NextToolchain]_vars

NextAnnotations ==
    \E annotations_str \in AnnotationStrings : ParseAnnotations(annotations_str)

SpecAnnotations == Init /\ [][NextAnnotations]_vars

NextExtraction == \E segments \in Documents : ExtractFromContent(segments)

SpecExtraction == Init /\ [][NextExtraction]_vars

NextResolver ==
    \E code \in ResolverCodes, context \in ResolverContexts :
        ResolveDependencies(code, context)

SpecResolver == Init /\ [][NextResolver]_vars

NextManifest ==
    \E examples \in ManifestLists : GenerateCargoToml(examples, "test-examples")

SpecManifest == Init /\ [][NextManifest]_vars

\* the calls on one example: test_example, test_example_with_target and
\* test_example_all_targets
NextTester ==
    \/ \E config \in TesterConfigs, installed \in InstalledTargets :
          NewTester(config, installed)
    \/ DropTester
    \/ OtherProcessWrites
    \/ \E example \in TesterExamples : TestExample(example)
    \/ \E example \in TesterExamples, target \in TesterTargets :
          TestExampleWithTarget(example, target)
    \/ \E example \in TesterExamples : TestExampleAllTargets(example)
    \/ \E io \in IoOutcomes : StartItem(io)
    \/ Tick
    \/ \E output \in ChildOutputs : ChildExit(output)

SpecTester == Init /\ [][NextTester]_vars

\* validate_examples on lists of examples
NextValidate ==
    \/ \E config \in TesterConfigs : NewTester(config, {"x86_64-unknown-linux-gnu"})
    \/ DropTester
    \/ \E examples \in ExampleLists(MaxExamples) : ValidateExamples(examples)
    \/ \E io \in {"ok", "project_dir", "spawn"} : StartItem(io)
    \/ Tick
    \/ \E output \in {o \in ChildOutputs : o.wait = "ok" /\ o.stderr # ""} :
          ChildExit(output)

SpecValidate == Init /\ [][NextValidate]_vars

NextCli ==
    \/ \E config \in CliConfigs, readable \in BOOLEAN :
          RunWithConfig(config, readable)
    \/ \E output \in CliOutputs, readable \in BOOLEAN :
          RunLoopStep(output, readable)
    \/ \E time \in 1..MaxMtime : Touch(time)
    \/ \E id \in {"doc_1", "doc_2"}, time \in 1..MaxMtime :
          \E code \in CliCodes[id] : Edit(id, code, time)

SpecCli == Init /\ [][NextCli]_vars

-----------------------------------------------------------------------------
(* Claims *)

\* C1: in a retry loop the manager returns Retry at most max_retries times for one
\* error signature, and never returns Retry once retry_count >= max_retries.
C1_RetryAtMostMaxRetries ==
    /\ loop.received <= max_retries
    /\ rec_call.valid /\ rec_call.retry_count >= max_retries
          => rec_call.action.kind # "Retry"

\* C9: an update_failure_rate(successful, total) call with total > 0 turns a
\* non-degraded manager degraded exactly when 1 - successful/total > 1/2, turns a
\* degraded manager back exactly when 1 - successful/total < 1/4, and leaves the
\* mode as it was for a ratio in [1/4, 1/2].
C9_DegradationHysteresis ==
    deg_call.valid /\ deg_call.total > 0 =>
        LET failed == deg_call.total - deg_call.successful
            total == deg_call.total
        IN  /\ ~deg_call.before => (degraded_mode <=> 2 * failed > total)
            /\ deg_call.before => (~degraded_mode <=> 4 * failed < total)
            /\ (4 * failed >= total /\ 2 * failed <= total)
                  => degraded_mode = deg_call.before

\* a degraded manager leaves degraded mode on 8 successes out of 10
C9_Witness ==
    /\ deg_call.valid /\ deg_call.before /\ ~degraded_mode
    /\ deg_call.successful = 8 /\ deg_call.total = 10

\* C10: infer_context yields one of the five contexts, and on a block without a
\* snippet annotation an explicit annotation overrides the content heuristics:
\* annotated hardware gives Hardware, annotated no_std (and not hardware) gives
\* NoStd, annotated crypto (and neither of the former) gives Crypto, for every code.
C10_AnnotationsOverrideHeuristics ==
    classified.valid =>
        LET keys == DOMAIN classified.annotations
            kind == classified.context.kind
        IN  /\ kind \in {"Std", "NoStd", "Hardware", "Crypto", "Snippet"}
            /\ "snippet" \notin keys =>
                  /\ "hardware" \in keys => kind = "Hardware"
                  /\ ("no_std" \in keys /\ "hardware" \notin keys) => kind = "NoStd"
                  /\ ("crypto" \in keys /\ {"hardware", "no_std"} \cap keys = {})
                        => kind = "Crypto"

\* C4: resolve_dependencies returns the empty list for every example whose context
\* is Snippet, whatever its code names.
C4_SnippetHasNoDependencies ==
    (resolved.valid /\ resolved.example.context.kind = "Snippet")
        => resolved.dependencies = <<>>

\* C5: for a Snippet example, test_example, test_example_with_target and
\* test_example_all_targets return one result with success = true, target "skipped"
\* and no error, and the call looks up no target, creates no directory and spawns
\* no compiler, neither before it returns nor while it runs.
C5_SnippetShortCircuit ==
    /\ (t_ret.valid /\ t_ret.examples[1].context.kind = "Snippet") =>
          /\ Len(t_ret.results) = 1
          /\ t_ret.results[1].example_id = t_ret.examples[1].id
          /\ t_ret.results[1].success
          /\ t_ret.results[1].target = "skipped"
          /\ t_ret.results[1].error = None
          /\ t_ret.lookups = 0 /\ t_ret.spawns = 0 /\ t_ret.created = 0
    /\ (t_pc # "idle" /\ t_call.examples[1].context.kind = "Snippet") =>
          /\ ~child.running
          /\ t_call.lookups = 0 /\ t_call.spawns = 0 /\ t_call.created = 0

\* test_example_all_targets has returned for a Snippet example on a tester that has
\* compiled before
C5_Witness ==
    /\ t_ret.valid /\ t_ret.api = "test_example_all_targets"
    /\ t_ret.examples[1].context.kind = "Snippet"
    /\ tester.temp_dir # None

\* C6: in validate_examples every failed compilation is passed to the
\* ErrorRecoveryManager before it is recorded, and the report records a recovery
\* outcome for it (a Skip record), never the compiler's failure itself.
C6_FailuresGoThroughRecovery ==
    (t_ret.valid /\ t_ret.api = "validate_examples") =>
        \A i \in 1..Len(t_ret.report.results) :
            LET r == t_ret.report.results[i] IN
            (/\ ~r.success
             /\ r.error # None
             /\ Unwrap(r.error).kind \in {"SyntaxError", "DependencyError",
                                          "CompilationFailed", "TimeoutError"}) =>
                /\ rec_call.valid
                /\ r.target = "skipped"

\* C7: validate_examples returns a report with one result per example, in the order
\* of the examples, the i-th result carrying the i-th example's id, and
\* total_examples is the number of examples.
C7_OneResultPerExample ==
    (t_ret.valid /\ t_ret.api = "validate_examples") =>
        /\ Len(t_ret.report.results) = Len(t_ret.examples)
        /\ t_ret.report.total_examples = Len(t_ret.examples)
        /\ \A i \in 1..Len(t_ret.examples) :
              t_ret.report.results[i].example_id = t_ret.examples[i].id

\* validate_examples has returned for two examples of which the first failed to
\* compile and the second was compiled all the same
C7_Witness ==
    /\ t_ret.valid /\ t_ret.api = "validate_examples"
    /\ Len(t_ret.examples) = 2
    /\ ~t_ret.report.results[1].success
    /\ t_ret.report.results[1].target = "x86_64-unknown-linux-gnu"
    /\ t_ret.report.results[2].success
    /\ t_ret.report.results[2].target = "x86_64-unknown-linux-gnu"

\* C8: a compiler that is still running when compilation_timeout expires is
\* terminated at expiry: no compiler runs longer than the timeout.
C8_TimeoutTerminatesCompiler ==
    child.running => child.elapsed <= tester.config.compilation_timeout


\* C2: with the cache enabled, no result of a finished run's report was read from a
\* cache entry whose content hash or modification time differed from the
\* example's current ones when it was read (normal and incremental mode)
C2_StaleEntryNeverReported ==
    (cli_ret.valid /\ cli_ret.status = "ok" /\ cli_ret.config.use_cache) =>
        \A i \in 1..Len(cli_ret.provenance) :
            cli_ret.provenance[i].cached => ~cli_ret.provenance[i].stale

\* C3: with the cache enabled, no example that is unchanged since the last complete
\* run with the cache is compiled again, and every result the report holds for such
\* an example was read from the cache; a run that is not stopped early has exactly
\* one result for each of them
C3_UnchangedRunCompilesNothing ==
    /\ (cli.pc = "loop" /\ cli.config.use_cache) =>
          /\ cli.compiled \cap unchanged = {}
          /\ \A i \in 1..Len(cli.provenance) :
                cli.provenance[i].key \in unchanged => cli.provenance[i].cached
    /\ (cli_ret.valid /\ cli_ret.config.use_cache) =>
          /\ cli_ret.compiled \cap cli_ret.unchanged = {}
          /\ \A i \in 1..Len(cli_ret.provenance) :
                cli_ret.provenance[i].key \in cli_ret.unchanged =>
                    cli_ret.provenance[i].cached
          /\ (cli_ret.status = "ok" /\ ~cli_ret.failed_fast) =>
                \A key \in KeysOf(cli_ret.all_examples) \cap cli_ret.unchanged :
                    Cardinality({i \in 1..Len(cli_ret.provenance) :
                                    cli_ret.provenance[i].key = key}) = 1

\* a second run over two unchanged examples has ended: both results, one of them a
\* failure, come from the cache and nothing was compiled
C3_Witness ==
    /\ cli_ret.valid /\ cli_ret.status = "ok" /\ cli_ret.config.use_cache
    /\ ~cli_ret.config.incremental
    /\ Len(cli_ret.all_examples) = 2
    /\ cli_ret.unchanged = KeysOf(cli_ret.all_examples)
    /\ cli_ret.compiled = {}
    /\ Len(cli_ret.report.results) = 2
    /\ cli_ret.report.failed = 1
    /\ \A i \in 1..2 : cli_ret.provenance[i].cached

\* C11: a block whose annotations hold a fragment or a snippet annotation is
\* classified Snippet for every code and every other annotation, and the reason is
\* the annotation's value when it has one.
C11_ExplicitSnippetAnnotation ==
    classified.valid =>
        LET keys == DOMAIN classified.annotations IN
        /\ {"snippet", "fragment"} \cap keys # {} =>
              classified.context.kind = "Snippet"
        /\ \A key \in {"snippet", "fragment"} \cap keys :
              classified.annotations[key] # None =>
                  /\ classified.context.kind = "Snippet"
                  /\ classified.context.reason = Unwrap(classified.annotations[key])

\* C12: two calls of generate_cargo_toml with the same examples and the same
\* package name return the same text.
C12_ManifestDeterministic ==
    (/\ manifest.valid /\ manifest.previous.valid
     /\ manifest.examples = manifest.previous.examples
     /\ manifest.package_name = manifest.previous.package_name) =>
        manifest.text = manifest.previous.text

\* C13: calling resolve_dependencies twice on the same example yields equal lists,
\* and every list it returns is strictly ascending by dependency name (byte order),
\* hence sorted and without a repeated name.
C13_ResolveIdempotentSorted ==
    resolved.valid =>
        /\ \A i \in 1..(Len(resolved.dependencies) - 1) :
              StrLess(resolved.dependencies[i].name, resolved.dependencies[i + 1].name)
        /\ (resolved.previous.valid /\ resolved.previous.example = resolved.example)
              => resolved.previous.dependencies = resolved.dependencies

\* a second call on the same example whose code names a crate twice and names its
\* crates out of order
C13_Witness ==
    /\ resolved.valid
    /\ resolved.previous.valid
    /\ resolved.previous.example = resolved.example
    /\ Len(resolved.dependencies) >= 2
    /\ Len(detected_as_pushed(resolved.example.code)) > Len(resolved.dependencies)
    /\ detected_as_pushed(resolved.example.code)[1] # resolved.dependencies[1].name

\* C14: in fail-fast mode the loop of run_with_config stops at the first failing
\* result, compiled or read from the cache: while the loop has another iteration to
\* run the report holds no failure, and in the report of a finished run that is not
\* incremental only the last result can be a failure.
C14_FailFastStopsAtFirstFailure ==
    /\ (cli.pc = "loop" /\ cli.config.fail_fast) =>
          \A i \in 1..Len(cli.report.results) : cli.report.results[i].success
    /\ (/\ cli_ret.valid /\ cli_ret.status = "ok"
        /\ cli_ret.config.fail_fast /\ ~cli_ret.config.incremental) =>
          \A i \in 1..(Len(cli_ret.report.results) - 1) :
              cli_ret.report.results[i].success

\* C15: when no configured target is installed and compatible, get_available_targets
\* returns the host target alone only for no_std = false and embedded_mode = false,
\* one installed Embedded target for every other configuration when there is one,
\* and the empty list otherwise; and no target it returns is of a type that is
\* incompatible with the configuration.
C15_TargetFallback ==
    target_lookup.valid =>
        LET config == target_lookup.config
            result == target_lookup.targets
            configured == ConfiguredAvailable(config.targets, target_lookup.installed,
                                              config)
            embedded == {t \in target_lookup.installed \cap DOMAIN known_target_type :
                            known_target_type[t] = "Embedded"}
        IN  /\ configured = <<>> =>
                  IF ~config.no_std /\ ~config.embedded_mode
                  THEN result = <<"x86_64-unknown-linux-gnu">>
                  ELSE IF embedded # {} THEN \E t \in embedded : result = <<t>>
                  ELSE result = <<>>
            /\ \A i \in 1..Len(result) :
                  /\ result[i] \in DOMAIN known_target_type
                  /\ TargetCompatible(known_target_type[result[i]], config)

\* C16: on one manager the action a call returns is the one stored under the call's
\* cache key, two consecutive calls with equal keys return equal actions whatever
\* the code, configuration and retry_count of the second, and an action once stored
\* for a key is neither replaced nor removed.
C16_DecisionMemoized ==
    /\ [](rec_call.valid =>
            LET key == error_cache_key(rec_call.error, rec_call.example.context) IN
            /\ key \in DOMAIN recovery_cache
            /\ recovery_cache[key] = rec_call.action)
    /\ [][/\ \A key \in DOMAIN recovery_cache :
                /\ key \in DOMAIN recovery_cache'
                /\ recovery_cache'[key] = recovery_cache[key]
          /\ (/\ rec_call.valid
              /\ error_cache_key(rec_call.error, rec_call.example.context)
                    = error_cache_key(rec_call'.error, rec_call'.example.context))
                => rec_call'.action = rec_call.action]_vars

\* a call found its key in the cache although its own code, configuration and
\* retry_count would have led to another action
C16_Witness ==
    /\ rec_call.valid
    /\ rec_call.hit
    /\ handle_error(rec_call.error, rec_call.example, rec_call.config,
                    rec_call.retry_count) # rec_call.action

\* C19: for a SyntaxError determine_recovery_action returns MarkAsSnippet exactly
\* when the code of the example satisfies is_snippet_code of the extractor or the
\* message matches an unexpected-end or expected-item pattern, returns Skip in
\* every other case, and never returns Retry.
C19_SyntaxErrorDecision ==
    (rec_call.valid /\ rec_call.error.kind = "SyntaxError") =>
        LET message == rec_call.error.message
            incomplete == \/ is_snippet_code(rec_call.example.code)
                          \/ Contains(message, "expected item")
                          \/ Contains(message, "unexpected end of file")
                          \/ Contains(message, "expected 'fn', 'mod', 'struct'")
        IN  /\ rec_call.action.kind # "Retry"
            /\ incomplete => rec_call.action.kind = "MarkAsSnippet"
            /\ ~incomplete => rec_call.action.kind = "Skip"

\* C20: for a FeatureError determine_recovery_action returns Retry only when every
\* unsupported feature is in optional_features and retry_count < max_retries, the
\* configuration of the Retry is the call's without the unsupported features, and
\* the action is Skip when an unsupported feature is not in optional_features or
\* retry_count >= max_retries.
C20_FeatureErrorDecision ==
    (rec_call.valid /\ rec_call.error.kind = "FeatureError") =>
        LET unsupported == rec_call.error.unsupported
            all_optional == \A i \in 1..Len(unsupported) :
                                InSeq(optional_features, unsupported[i])
        IN  /\ rec_call.action.kind = "Retry" =>
                  /\ all_optional
                  /\ rec_call.retry_count < max_retries
                  /\ rec_call.action.config =
                        [rec_call.config EXCEPT
                            !.features = SelectSeq(@, LAMBDA f : ~InSeq(unsupported, f))]
            /\ (~all_optional \/ rec_call.retry_count >= max_retries)
                  => rec_call.action.kind = "Skip"

\* the commas of s outside double quotes, and the items between them as pairs of
\* first and last position
OutsideQuotes(s, i) == Cardinality({j \in 1..(i - 1) : CharAt(s, j) = "\""}) % 2 = 0

ItemBounds(s) ==
    LET cuts == {i \in 1..Len(s) : CharAt(s, i) = "," /\ OutsideQuotes(s, i)} IN
    {<<NthPosition(cuts, k - 1, Len(s) + 1) + 1, NthPosition(cuts, k, Len(s) + 1) - 1>> :
        k \in 1..(Cardinality(cuts) + 1)}

\* the equals signs of an item outside double quotes
ItemEquals(s, item) == {i \in item[1]..item[2] : CharAt(s, i) = "=" /\ OutsideQuotes(s, i)}

\* a piece of an item without its quote characters and surrounding blanks
ItemText(s, first, last) == Trim(Replace(SubSeq(s, first, last), "\"", ""))

\* the key and the value an item stands for: a bare flag, or key=value
ItemKey(s, item) ==
    IF ItemEquals(s, item) = {} THEN ItemText(s, item[1], item[2])
    ELSE ItemText(s, item[1], (CHOOSE e \in ItemEquals(s, item) : TRUE) - 1)

ItemValue(s, item) ==
    IF ItemEquals(s, item) = {} THEN None
    ELSE Some(ItemText(s, (CHOOSE e \in ItemEquals(s, item) : TRUE) + 1, item[2]))

\* a text of bare flags and key=value items with distinct keys, each value given
\* plainly or between double quotes
LegalAnnotations(s) ==
    /\ OutsideQuotes(s, Len(s) + 1)
    /\ \A item \in ItemBounds(s) :
          /\ Cardinality(ItemEquals(s, item)) <= 1
          /\ ItemKey(s, item) # ""
          /\ ItemValue(s, item) # Some("")
          /\ \A other \in ItemBounds(s) :
                other # item => ItemKey(s, other) # ItemKey(s, item)

C18_OneExamplePerClosedBlock ==
    extracted.valid =>
        LET segments == extracted.segments
            examples == extracted.result.examples
            rust == {k \in 1..Len(segments) : segments[k].kind \in {"rust", "unclosed"}}
            closed == {k \in 1..Len(segments) : segments[k].kind = "rust"}
            OpenerLine(k) == Len(SegmentLines(SubSeq(segments, 1, k - 1))) + 1
            Ordinal(k) == Cardinality({m \in rust : m <= k})
        IN  /\ extracted.result.ok
            /\ Len(examples) = Cardinality(closed)
            /\ \A n \in 1..Len(examples) :
                  LET k == NthPosition(closed, n, 0) IN
                  /\ examples[n].id = "test_" \o NatToStr(Ordinal(k))
                  /\ examples[n].line_number = OpenerLine(k)
            /\ \A a, b \in 1..Len(examples) : a # b => examples[a].id # examples[b].id

\* a document of prose, a closed rust block and a rust block that is never closed:
\* one example, from a line after the first
C18_Witness ==
    /\ extracted.valid
    /\ Len(extracted.segments) = 3
    /\ extracted.segments[1].kind = "prose"
    /\ extracted.segments[2].kind = "rust"
    /\ extracted.segments[3].kind = "unclosed"
    /\ Len(extracted.result.examples) = 1
    /\ extracted.result.examples[1].line_number > 1

\* C21: for a TimeoutError with retry_count < max_retries the action is Retry with
\* the configuration passed in, changed only in its compilation timeout, which is
\* doubled; with retry_count >= max_retries the action is Skip.
C21_TimeoutErrorDecision ==
    (rec_call.valid /\ rec_call.error.kind = "TimeoutError") =>
        IF rec_call.retry_count < max_retries
        THEN /\ rec_call.action.kind = "Retry"
             /\ rec_call.action.config =
                   [rec_call.config EXCEPT
                       !.compilation_timeout = 2 * rec_call.config.compilation_timeout]
        ELSE rec_call.action.kind = "Skip"

\* C22: for a TargetError the action is Fallback to the first of fallback_targets
\* that is neither the failing target nor one of the configuration's targets, and
\* Skip only when there is no such target.
C22_TargetErrorDecision ==
    (rec_call.valid /\ rec_call.error.kind = "TargetError") =>
        LET remaining == SelectSeq(fallback_targets,
                            LAMBDA t : /\ t # rec_call.error.incompatible_target
                                       /\ ~InSeq(rec_call.config.targets, t))
        IN  IF Len(remaining) > 0
            THEN /\ rec_call.action.kind = "Fallback"
                 /\ rec_call.action.target = Head(remaining)
            ELSE rec_call.action.kind = "Skip"

\* C23: for a DependencyError with retry_count < max_retries the action is Retry
\* with the configuration passed in, to whose features "embedded" and "crypto" are
\* appended when a missing name asks for them and they are not there yet, the
\* features it had keeping their order and every other field its value; with
\* retry_count >= max_retries the action is Skip.
C23_DependencyErrorDecision ==
    (rec_call.valid /\ rec_call.error.kind = "DependencyError") =>
        LET missing == rec_call.error.missing
            old == rec_call.config.features
            Asked(words) == \E i \in 1..Len(missing) : \E w \in words :
                                Contains(missing[i], w)
            added == {f \in {"embedded", "crypto"} :
                         /\ ~InSeq(old, f)
                         /\ f = "embedded" => Asked({"embedded", "cortex", "hal"})
                         /\ f = "crypto" => Asked({"crypto", "aes", "sha"})}
        IN  IF rec_call.retry_count < max_retries
            THEN /\ rec_call.action.kind = "Retry"
                 /\ LET new == rec_call.action.config.features IN
                    /\ rec_call.action.config = [rec_call.config EXCEPT !.features = new]
                    /\ Len(new) = Len(old) + Cardinality(added)
                    /\ SubSeq(new, 1, Len(old)) = old
                    /\ {new[i] : i \in (Len(old) + 1)..Len(new)} = added
            ELSE rec_call.action.kind = "Skip"

\* C28: determine_recovery_action never returns Abort, whatever the error, the
\* example, the configuration, the retry_count and the calls made before, and no
\* Abort is ever stored in recovery_cache.
C28_NeverAbort ==
    /\ rec_call.valid => rec_call.action.kind # "Abort"
    /\ \A key \in DOMAIN recovery_cache : recovery_cache[key].kind # "Abort"

\* a handler gave up on a call with the retries used up, and a later call with
\* retries left got that decision back from the cache
C28_Witness ==
    /\ rec_call.valid
    /\ rec_call.hit
    /\ rec_call.retry_count < max_retries
    /\ rec_call.error.kind = "IoError"
    /\ rec_call.action.kind = "Skip"

\* C24: should_degrade_example returns no strategy exactly when the manager is not
\* in degraded mode; in degraded mode it returns SkipComplexExamples for a complex
\* example, else DisableHardwareTesting for an example in a Hardware context, else
\* SyntaxOnlyValidation, so that SyntaxOnlyValidation is returned only for examples
\* that are neither complex nor Hardware.
C24_FirstApplicableStrategy ==
    deg_query.valid =>
        LET example == deg_query.example
            complex == \/ complexity_score(example.code) >= 6
                       \/ Len(Lines(example.code)) >= 51
            hardware == example.context.kind = "Hardware"
        IN  /\ deg_query.strategy = None <=> ~deg_query.mode
            /\ deg_query.mode =>
                 deg_query.strategy =
                    Some(IF complex THEN "SkipComplexExamples"
                         ELSE IF hardware THEN "DisableHardwareTesting"
                         ELSE "SyntaxOnlyValidation")
            /\ deg_query.strategy = Some("SyntaxOnlyValidation")
                 => ~complex /\ ~hardware

\* a degraded manager is asked about an example that is complex and in a
\* Hardware context, and answers with the strategy that comes first
C24_Witness ==
    /\ deg_query.valid
    /\ deg_query.mode
    /\ deg_query.example.context.kind = "Hardware"
    /\ is_complex_example(deg_query.example)
    /\ deg_query.strategy = Some("SkipComplexExamples")

\* C25: two distinct compilation units of a call, two examples or one example on
\* two targets, never set up their project in the same directory.
C25_ExclusiveBuildDirectory ==
    \A u, v \in t_call.projects \cup (IF t_ret.valid THEN t_ret.projects ELSE {}) :
        (u.example # v.example \/ u.target # v.target)
            => u.project_dir # v.project_dir

\* C26: when a tester is dropped, none of the paths it made is left on disk,
\* whatever its compilations did, and the drop removes nothing but paths the
\* tester made.
C26_DropRemovesOwnDirectories ==
    tester.last_drop.valid =>
        /\ tester.last_drop.remaining = {}
        /\ tester.last_drop.removed \subseteq tester.last_drop.made

\* C27: after any sequence of add_result, skip_example, mark_as_snippet and
\* record_* calls on a new report, total_examples is the sum of successful, failed,
\* skipped and snippets, and results holds one entry per counted example.
C27_ReportCountsAgree ==
    /\ validation_report.total_examples =
          validation_report.successful + validation_report.failed
          + validation_report.skipped + validation_report.snippets
    /\ Len(validation_report.results) = validation_report.total_examples

\* a report on which every kind of call has been made
C27_Witness ==
    /\ validation_report.successful > 0
    /\ validation_report.failed > 0
    /\ validation_report.skipped > 0
    /\ validation_report.snippets > 0
    /\ validation_report.recovered > 0

\* C29: a completed run with the cache and incremental mode on and fail-fast off
\* reports exactly one result for every extracted example, also when examples of
\* different files have the same id.
C29_OneResultPerExtractedExample ==
    (/\ directory.ret.valid
     /\ directory.ret.status # "err"
     /\ directory.ret.config.use_cache
     /\ directory.ret.config.incremental
     /\ ~directory.ret.config.fail_fast)
        => Len(directory.ret.report.results) = Len(directory.ret.all_examples)

\* C30: in watch mode a run that ends with failing examples, or that stopped on
\* fail-fast, leaves the process watching.
C30_WatchSurvivesFailingRun ==
    (/\ watch.pc # "off"
     /\ directory.ret.valid
     /\ directory.ret.status # "err"
     /\ directory.ret.report.failed > 0 \/ directory.ret.failed_fast)
        => watch.pc = "watching"
=============================================================================
